---- MODULE Spec2Model ----
(***************************************************************************)
(* A model of the CSV split-and-transform engine: CSVParser (the enhanced  *)
(* parser with formatters and transformations), the worker's processChunk  *)
(* and WorkerPool.processChunks.                                           *)
(*                                                                         *)
(* Text is a sequence of tokens: "," and "\n" are the separator and the    *)
(* line terminator, every other token is one field value.  A row is a      *)
(* sequence of <<key, value>> pairs in insertion order (a JavaScript       *)
(* object).  An output file is the sequence of its writes.                 *)
(***************************************************************************)
EXTENDS Integers, Sequences, FiniteSets, TLC

(***************************************************************************)
(* Bounds of the model                                                     *)
(***************************************************************************)
MaxRows == 3           \* data rows of the source file
MaxRowsOpt == 2        \* largest maxRowsPerFile option tried
SmallChunkBytes == 4   \* the small chunkSizeBytes option tried
NameRange == 12        \* chunk and file indexes whose file names are compared
MaxCols == 2           \* longest include / exclude column list tried
MaxJsonFiles == 2      \* files written with one formatter instance
MaxJsonRows == 2       \* rows written to one of those files
MaxValueLen == 3       \* characters of a field value handed to the csv writer
MaxFileSize == 6       \* largest file size handed to createFileChunks
MaxWorkers == 3        \* largest processCount handed to createFileChunks
MaxChunkBytes == 4     \* largest chunkSizeBytes handed to createFileChunks
MaxBatchSize == 2      \* largest batchSize option handed to the parquet formatter
MaxBatchRows == 4      \* rows handed to one parquet formatter

(***************************************************************************)
(* Program constants                                                       *)
(***************************************************************************)
DefaultMaxRowsPerFile == 100000
DefaultProcessCount == 4
DefaultChunkSizeBytes == 52428800

Undefined == "<undefined>"
Null == <<<<"<null>", "<null>">>>>
\* the result of a call that threw instead of returning
Thrown == <<<<"<error>", "<error>">>>>
\* a pattern that new RegExp() rejects with a SyntaxError
InvalidPattern == "("
NoStream == 0
\* JavaScript values that are not strings: the numbers parseFloat gives for the
\* texts tried, and the two booleans
NumberValue ==
    [n \in {0, 17, 30, 65} |->
        CASE n = 0 -> "<0>" [] n = 17 -> "<17>" [] n = 30 -> "<30>" [] n = 65 -> "<65>"]
BooleanValue == [b \in BOOLEAN |-> IF b THEN "<true>" ELSE "<false>"]
\* String(value)
StringOf(value) ==
    CASE value = NumberValue[0] -> "0"
      [] value = NumberValue[17] -> "17"
      [] value = NumberValue[30] -> "30"
      [] value = NumberValue[65] -> "65"
      [] value = BooleanValue[TRUE] -> "true"
      [] value = BooleanValue[FALSE] -> "false"
      [] OTHER -> value

(***************************************************************************)
(* Sequence helpers (Array.prototype.join / String.prototype.split)        *)
(***************************************************************************)
RECURSIVE Join(_, _)
Join(fields, sep) ==
    IF Len(fields) = 0 THEN <<>>
    ELSE IF Len(fields) = 1 THEN <<fields[1]>>
    ELSE <<fields[1], sep>> \o Join(Tail(fields), sep)

\* text.split(sep): the segments between separators, as token sequences
RECURSIVE Split(_, _)
Split(text, sep) ==
    IF \A i \in 1..Len(text) : text[i] # sep THEN <<text>>
    ELSE LET k == CHOOSE i \in 1..Len(text) :
                      text[i] = sep /\ \A j \in 1..(i - 1) : text[j] # sep
         IN <<SubSeq(text, 1, k - 1)>> \o Split(SubSeq(text, k + 1, Len(text)), sep)

\* a segment of a split line as a field value ('' when nothing is between)
FieldOf(segment) == IF Len(segment) = 0 THEN "" ELSE segment[1]

Min(a, b) == IF a < b THEN a ELSE b
CeilDiv(a, b) == IF a % b = 0 THEN a \div b ELSE (a \div b) + 1

\* options.x || dflt for a number option (absent and 0 are both falsy)
OrDefault(v, dflt) == IF v = 0 THEN dflt ELSE v

(***************************************************************************)
(* Rows                                                                    *)
(***************************************************************************)
HasKey(row, k) == \E i \in 1..Len(row) : row[i][1] = k
Get(row, k) ==
    IF HasKey(row, k)
    THEN row[CHOOSE i \in 1..Len(row) : row[i][1] = k][2]
    ELSE Undefined
Keys(row) == [i \in 1..Len(row) |-> row[i][1]]
Includes(seq, x) == \E i \in 1..Len(seq) : seq[i] = x
\* value || '' : undefined and '' are the falsy values a source row can hold
OrEmpty(v) ==
    IF v \in {Undefined, "", NumberValue[0], BooleanValue[FALSE]} THEN "" ELSE v

(***************************************************************************)
(* The source file                                                         *)
(***************************************************************************)
InputHeaders == <<"name", "age">>
Names == <<"A", "B", "C", "D", "E">>
Ages == <<"30", "17", "65">>
SourceValues(i) == <<Names[((i - 1) % Len(Names)) + 1], Ages[((i - 1) % Len(Ages)) + 1]>>

RECURSIVE SourceLines(_)
SourceLines(n) ==
    IF n = 0 THEN <<InputHeaders>> ELSE Append(SourceLines(n - 1), SourceValues(n))

RECURSIVE JoinLines(_)
JoinLines(lines) ==
    IF Len(lines) = 0 THEN <<>>
    ELSE IF Len(lines) = 1 THEN Join(lines[1], ",")
    ELSE Join(lines[1], ",") \o <<"\n">> \o JoinLines(Tail(lines))

\* the bytes of a source file with n data rows
SourceText(n) == JoinLines(SourceLines(n))

\* csv(): the header list and the rows of a text, as 'headers' and 'data' deliver them
CsvHeaders(text) == [i \in 1..Len(Split(Split(text, "\n")[1], ",")) |->
                        FieldOf(Split(Split(text, "\n")[1], ",")[i])]
CsvRow(hdrs, line) ==
    LET vals == Split(line, ",")
    IN [i \in 1..Min(Len(hdrs), Len(vals)) |-> <<hdrs[i], FieldOf(vals[i])>>]
CsvRows(text) ==
    LET lines == Split(text, "\n")
        hdrs == CsvHeaders(text)
        data == SelectSeq(Tail(lines), LAMBDA l : Len(l) > 0)
    IN [i \in 1..Len(data) |-> CsvRow(hdrs, data[i])]

(***************************************************************************)
(* Format writers (formatters/index.js)                                    *)
(***************************************************************************)
getSupportedFormats == {"csv", "json", "jsonl", "xml", "tsv", "parquet"}

\* format.toLowerCase() over the format names the model tries
ToLowerCase(s) == IF s = "CSV" THEN "csv" ELSE s

\* createFormatter: the writer class, or "throw" (Unsupported output format)
createFormatter(format) ==
    LET f == ToLowerCase(format)
    IN CASE f = "csv" -> [class |-> "CSVFormatter", format |-> f]
         [] f \in {"json", "jsonl"} -> [class |-> "JSONFormatter", format |-> f]
         [] f = "xml" -> [class |-> "XMLFormatter", format |-> f]
         [] f = "tsv" -> [class |-> "TSVFormatter", format |-> f]
         [] f = "parquet" -> [class |-> "ParquetFormatter", format |-> f]
         [] OTHER -> [class |-> "throw", format |-> f]

getFileExtension(formatter) ==
    CASE formatter.class = "CSVFormatter" -> ".csv"
      [] formatter.class = "JSONFormatter" ->
            IF formatter.format = "jsonl" THEN ".jsonl" ELSE ".json"
      [] formatter.class = "XMLFormatter" -> ".xml"
      [] formatter.class = "TSVFormatter" -> ".tsv"
      [] formatter.class = "ParquetFormatter" -> ".parquet.json"

(***************************************************************************)
(* Transformers (transformers/index.js)                                    *)
(***************************************************************************)
NumTable == [s \in {"30", "17", "65"} |->
                IF s = "30" THEN 30 ELSE IF s = "17" THEN 17 ELSE 65]
IsNaN(v) == v \notin DOMAIN NumTable
NumberOf(v) == NumTable[v]

\* the keys of an object built by assigning these keys in order: a key
\* assigned twice keeps its first position
RECURSIVE AssignedKeys(_)
AssignedKeys(cols) ==
    IF Len(cols) = 0 THEN <<>>
    ELSE LET front == AssignedKeys(SubSeq(cols, 1, Len(cols) - 1))
         IN IF Includes(front, cols[Len(cols)]) THEN front
            ELSE Append(front, cols[Len(cols)])

\* a filter that would leave the row as it is
ColumnFilterTransformKeepsAll(t, row) == row
\* ColumnFilter.transform
ColumnFilterTransform(t, row) ==
    LET inc == IF Len(t.includeColumns) > 0
               THEN LET present == AssignedKeys(SelectSeq(t.includeColumns,
                                             LAMBDA c : Get(row, c) # Undefined))
                    IN [i \in 1..Len(present) |-> <<present[i], Get(row, present[i])>>]
               ELSE row
    IN IF Len(t.excludeColumns) > 0
       THEN SelectSeq(inc, LAMBDA kv : ~Includes(t.excludeColumns, kv[1]))
       ELSE inc

\* ColumnFilter.getOutputHeaders
ColumnFilterGetOutputHeaders(t, inputHeaders) ==
    LET inc == IF Len(t.includeColumns) > 0
               THEN SelectSeq(t.includeColumns, LAMBDA c : Includes(inputHeaders, c))
               ELSE inputHeaders
    IN IF Len(t.excludeColumns) > 0
       THEN SelectSeq(inc, LAMBDA c : ~Includes(t.excludeColumns, c))
       ELSE inc

\* DataTypeConverter.transform on the entries of its copy of the row: every
\* configured column whose value is there and not '' is converted; an error
\* thrown by a conversion is caught and the value stays.  conversions is
\* Object.entries(this.conversions); a date is converted only for the texts in
\* dates, every other text tried is an invalid date (toISOString throws)
DataTypeConverterTransform(t, row) ==
    LET dates == [s \in {"2025-06-02T10:00Z"} |-> "2025-06-02"]
        parseBoolean(value) == BooleanValue[(value \in {"true", "1", "yes", "y", "on"})]
        convert(type, value) ==
            CASE type \in {"number", "float"} ->
                     IF IsNaN(value) THEN NumberValue[0]
                     ELSE NumberValue[NumberOf(value)]
              [] type \in {"boolean", "bool"} -> parseBoolean(value)
              [] type = "date" ->
                     IF value \in DOMAIN dates THEN dates[value] ELSE value
              [] OTHER -> value
        typeOf(column) ==
            LET i == CHOOSE i \in 1..Len(t.conversions) : t.conversions[i][1] = column
            IN t.conversions[i][2]
    IN [i \in 1..Len(row) |->
           IF /\ \E k \in 1..Len(t.conversions) : t.conversions[k][1] = row[i][1]
              /\ row[i][2] \notin {Undefined, ""}
           THEN <<row[i][1], convert(typeOf(row[i][1]), row[i][2])>>
           ELSE row[i]]

\* DataValidator.isEmpty
isEmpty(value) == value \in {Undefined, ""}

\* one rule of DataValidator.transform: TRUE when the row violates it
RuleViolated(rule, row) ==
    LET value == Get(row, rule.column)
    IN \/ rule.required /\ isEmpty(value)
       \/ rule.type = "number" /\ ~isEmpty(value) /\ IsNaN(value)
       \/ rule.hasMin /\ ~isEmpty(value) /\ ~IsNaN(value) /\ NumberOf(value) < rule.min

\* one rule of DataValidator.transform: TRUE when new RegExp(rule.pattern)
\* throws, which is reached when the value is not empty and neither the
\* required nor the type check has returned before (the rules tried have no
\* minLength or maxLength, and no pattern but the invalid one)
RuleThrows(rule, row) ==
    LET value == Get(row, rule.column)
    IN /\ "pattern" \in DOMAIN rule
       /\ rule.pattern = InvalidPattern
       /\ ~isEmpty(value)
       /\ ~(rule.type = "number" /\ IsNaN(value))

\* DataValidator.transform: the outcome of the first rule that returns null or
\* throws
DataValidatorTransform(t, row) ==
    LET hits == {i \in 1..Len(t.rules) :
                    RuleViolated(t.rules[i], row) \/ RuleThrows(t.rules[i], row)}
    IN IF hits = {} THEN row
       ELSE LET first == CHOOSE i \in hits : \A j \in hits : i <= j
            IN IF RuleThrows(t.rules[first], row) THEN Thrown ELSE Null

TransformerTransform(t, row) ==
    CASE t.kind = "ColumnFilter" -> ColumnFilterTransform(t, row)
      [] t.kind = "DataTypeConverter" -> DataTypeConverterTransform(t, row)
      [] t.kind = "DataValidator" -> DataValidatorTransform(t, row)

\* TransformationPipeline.transform
RECURSIVE ApplyTransformers(_, _)
ApplyTransformers(transformers, row) ==
    IF Len(transformers) = 0 THEN row
    ELSE LET result == TransformerTransform(transformers[1], row)
         IN IF result \in {Null, Thrown} THEN result
            ELSE ApplyTransformers(Tail(transformers), result)

PipelineTransform(pipeline, row) == ApplyTransformers(pipeline.transformers, row)

\* new Aggregator(), and no aggregator (pipeline.aggregator = null)
NoAggregator == [enabled |-> FALSE, rowCount |-> 0, stats |-> <<>>]
NewAggregator == [enabled |-> TRUE, rowCount |-> 0, stats |-> <<>>]

\* Aggregator.process(row, headers): stats is the list of <<column, count,
\* nullCount>> in the order the columns were first seen
RECURSIVE AggregatorColumns(_, _, _)
AggregatorColumns(stats, row, headers) ==
    IF Len(headers) = 0 THEN stats
    ELSE LET h == headers[1]
             isNull == Get(row, h) \in {Undefined, ""}
             known == \E i \in 1..Len(stats) : stats[i][1] = h
             opened == IF known THEN stats ELSE Append(stats, <<h, 0, 0>>)
             at == CHOOSE i \in 1..Len(opened) : opened[i][1] = h
             counted == [opened EXCEPT ![at] =
                            <<h, @[2] + 1, IF isNull THEN @[3] + 1 ELSE @[3]>>]
         IN AggregatorColumns(counted, row, Tail(headers))
AggregatorProcess(agg, row, headers) ==
    [agg EXCEPT !.rowCount = @ + 1, !.stats = AggregatorColumns(@, row, headers)]

\* the aggregation step of TransformationPipeline.transform, for a row that
\* passed every transformer
PipelineAggregate(pipeline, result, headers) ==
    IF pipeline.aggregator.enabled
    THEN [pipeline EXCEPT !.aggregator = AggregatorProcess(@, result, headers)]
    ELSE pipeline

\* TransformationPipeline.getStatistics (produced is FALSE for null)
NoStatistics == [produced |-> FALSE, totalRows |-> 0, columns |-> <<>>]
PipelineGetStatistics(pipeline) ==
    IF pipeline.aggregator.enabled
    THEN [produced |-> TRUE, totalRows |-> pipeline.aggregator.rowCount,
          columns |-> pipeline.aggregator.stats]
    ELSE NoStatistics

\* TransformationPipeline.getOutputHeaders
RECURSIVE PipelineGetOutputHeaders(_, _)
PipelineGetOutputHeaders(transformers, hdrs) ==
    IF Len(transformers) = 0 THEN hdrs
    ELSE PipelineGetOutputHeaders(Tail(transformers),
            IF transformers[1].kind = "ColumnFilter"
            THEN ColumnFilterGetOutputHeaders(transformers[1], hdrs)
            ELSE hdrs)

\* CSVParser.initializeTransformations: the pipeline, or none when
\* options.transformations is absent
initializeTransformations(transformations, generateStats) ==
    IF ~transformations.present
    THEN [present |-> FALSE, transformers |-> <<>>, aggregator |-> NoAggregator]
    ELSE [present |-> TRUE,
          aggregator |-> IF generateStats THEN NewAggregator ELSE NoAggregator,
          transformers |->
             (IF Len(transformations.includeColumns) > 0
                 \/ Len(transformations.excludeColumns) > 0
              THEN <<[kind |-> "ColumnFilter",
                      includeColumns |-> transformations.includeColumns,
                      excludeColumns |-> transformations.excludeColumns,
                      rules |-> <<>>]>>
              ELSE <<>>)
             \o
             (IF Len(transformations.typeConversions) > 0
              THEN <<[kind |-> "DataTypeConverter",
                      conversions |-> transformations.typeConversions]>>
              ELSE <<>>)
             \o
             (IF Len(transformations.validation) > 0
              THEN <<[kind |-> "DataValidator",
                      includeColumns |-> <<>>,
                      excludeColumns |-> <<>>,
                      rules |-> transformations.validation]>>
              ELSE <<>>)]

(***************************************************************************)
(* State                                                                   *)
(***************************************************************************)
VARIABLES
    options,     \* the configuration object handed to the constructor
    source,      \* the source path: its status and its bytes
    pc,          \* where process() stands
    parser,      \* the CSVParser instance's fields
    dirCreated,  \* the output directory exists
    files,       \* the output files, in creation order
    readPos,     \* data rows the sequential read stream has delivered
    pool,        \* WorkerPool.processChunks: its locals and the workers' promises
    call         \* a direct call of an exported class or function: inputs and results

vars == <<options, source, pc, parser, dirCreated, files, readPos, pool, call>>

(***************************************************************************)
(* Configurations and sources tried                                        *)
(***************************************************************************)
FormatChoices == getSupportedFormats \cup {"yaml", "CSV"}
MaxRowsChoices == (-1)..MaxRowsOpt

NoTransformations ==
    [present |-> FALSE, includeColumns |-> <<>>, excludeColumns |-> <<>>,
     typeConversions |-> <<>>, validation |-> <<>>]
AdultRule ==
    [column |-> "age", required |-> FALSE, type |-> "number", hasMin |-> TRUE,
     min |-> 18]
TransformationChoices ==
    {NoTransformations,
     [NoTransformations EXCEPT !.present = TRUE, !.includeColumns = <<"name">>],
     [NoTransformations EXCEPT !.present = TRUE, !.validation = <<AdultRule>>]}

Sources ==
    {[status |-> "missing", text |-> <<>>],
     [status |-> "unreadable", text |-> <<>>]}
    \cup {[status |-> "ok", text |-> SourceText(n)] : n \in 0..MaxRows}

\* new CSVParser(options)
NewParser(o) ==
    [maxRowsPerFile |-> OrDefault(o.maxRowsPerFile, DefaultMaxRowsPerFile),
     useMultipleProcesses |-> o.useMultipleProcesses,
     processCount |-> OrDefault(o.processCount, DefaultProcessCount),
     outputFormat |-> o.outputFormat,
     transformations |-> o.transformations,
     chunkSizeBytes |-> OrDefault(o.chunkSizeBytes, DefaultChunkSizeBytes),
     generateStats |-> o.generateStats,
     quiet |-> o.quiet,
     console |-> 0,
     statistics |-> NoStatistics,
     currentFileIndex |-> 1,
     currentRowCount |-> 0,
     totalRowsProcessed |-> 0,
     currentOutputStream |-> NoStream,
     headers |-> <<>>,
     outputHeaders |-> <<>>,
     formatter |-> [class |-> "null", format |-> ""],
     transformationPipeline |->
         [present |-> FALSE, transformers |-> <<>>, aggregator |-> NoAggregator]]

\* if (!this.quiet) { console.log ... }: n lines more on the console
Log(p, n) == IF p.quiet THEN p ELSE [p EXCEPT !.console = @ + n]
\* console.error in the catch of process()
LogError(p) == [p EXCEPT !.console = @ + 1]

(***************************************************************************)
(* Output streams                                                          *)
(***************************************************************************)
Write(fs, stream, kind, line) ==
    [fs EXCEPT ![stream].out = Append(@, [kind |-> kind, line |-> line])]
End(fs, stream) == [fs EXCEPT ![stream].ended = TRUE]
DataRows(file) == SelectSeq(file.out, LAMBDA w : w.kind = "row")

\* JSON.stringify(row)
RECURSIVE JsonMembers(_)
JsonMembers(row) ==
    IF Len(row) = 0 THEN <<>>
    ELSE IF Len(row) = 1 THEN <<row[1][1], ":", row[1][2]>>
    ELSE <<row[1][1], ":", row[1][2], ",">> \o JsonMembers(Tail(row))
JsonStringify(row) == <<"{">> \o JsonMembers(row) \o <<"}">>

\* the child elements writeRowSync writes for an XML row
RECURSIVE XmlElements(_, _)
XmlElements(hdrs, row) ==
    IF Len(hdrs) = 0 THEN <<>>
    ELSE <<"<", hdrs[1], ">", StringOf(OrEmpty(Get(row, hdrs[1]))), "</", hdrs[1], ">">>
         \o XmlElements(Tail(hdrs), row)

\* CSVParser.writeHeaderSync
writeHeaderSync(p, fs) ==
    CASE p.outputFormat = "csv" ->
            Write(fs, p.currentOutputStream, "header", Join(p.outputHeaders, ","))
      [] p.outputFormat \in {"json", "jsonl"} -> fs
      [] p.outputFormat = "xml" ->
            Write(fs, p.currentOutputStream, "header", <<"<?xml?>", "<data>">>)
      [] p.outputFormat = "tsv" ->
            Write(fs, p.currentOutputStream, "header", Join(p.outputHeaders, "\t"))
      [] OTHER -> fs

\* CSVParser.writeRowSync
writeRowSync(p, fs, row) ==
    LET values == [i \in 1..Len(p.outputHeaders) |->
                      StringOf(OrEmpty(Get(row, p.outputHeaders[i])))]
    IN CASE p.outputFormat = "csv" ->
               Write(fs, p.currentOutputStream, "row", Join(values, ","))
         [] p.outputFormat \in {"json", "jsonl"} ->
               Write(fs, p.currentOutputStream, "row", JsonStringify(row))
         [] p.outputFormat = "xml" ->
               Write(fs, p.currentOutputStream, "row",
                     <<"<row>">> \o XmlElements(p.outputHeaders, row) \o <<"</row>">>)
         [] p.outputFormat = "tsv" ->
               Write(fs, p.currentOutputStream, "row", Join(values, "\t"))
         [] OTHER -> fs

\* a footer that would be written only next to the progress output
writeFooterSyncUnlessQuiet(p, fs) ==
    IF p.outputFormat = "xml" /\ ~p.quiet
    THEN Write(fs, p.currentOutputStream, "footer", <<"</data>">>)
    ELSE fs
\* CSVParser.writeFooterSync
writeFooterSync(p, fs) ==
    IF p.outputFormat = "xml"
    THEN Write(fs, p.currentOutputStream, "footer", <<"</data>">>)
    ELSE fs

\* String(n) for n >= 0, one token per decimal digit
DigitChars == <<"0", "1", "2", "3", "4", "5", "6", "7", "8", "9">>
RECURSIVE Digits(_)
Digits(n) ==
    IF n < 10 THEN <<DigitChars[n + 1]>>
    ELSE Digits(n \div 10) \o <<DigitChars[(n % 10) + 1]>>

\* new Date().toISOString().split('T')[0]: YYYY-MM-DD
Timestamp == <<"2", "0", "2", "5">> \o <<"-">> \o <<"0", "6">> \o <<"-">> \o <<"0", "2">>

\* `split_part_${currentFileIndex}_${timestamp}${fileExtension}`
SequentialFileName(currentFileIndex, fileExtension) ==
    <<"split", "_", "part", "_">> \o Digits(currentFileIndex) \o <<"_">>
        \o Timestamp \o <<fileExtension>>

\* a worker file name that would leave the chunk index out
WorkerFileNameNoChunkIndex(chunkIndex, currentFileIndex) ==
    <<"split", "_", "part", "_">> \o Digits(currentFileIndex) \o <<"_">>
        \o Timestamp \o <<".csv">>
\* the worker's `split_part_${chunkIndex}_${currentFileIndex}_${timestamp}.csv`
WorkerFileName(chunkIndex, currentFileIndex) ==
    <<"split", "_", "part", "_">> \o Digits(chunkIndex) \o <<"_">>
        \o Digits(currentFileIndex) \o <<"_">> \o Timestamp \o <<".csv">>

\* a createNewOutputStreamSync that would not reset the row counter
createNewOutputStreamSyncKeepingCount(p, fs) ==
    LET closed == IF p.currentOutputStream # NoStream
                  THEN End(writeFooterSync(p, fs), p.currentOutputStream)
                  ELSE fs
        name == [chunk |-> -1, index |-> p.currentFileIndex,
                 ext |-> getFileExtension(p.formatter),
                 path |-> SequentialFileName(p.currentFileIndex,
                                             getFileExtension(p.formatter))]
        opened == Append(closed, [name |-> name, out |-> <<>>, ended |-> FALSE])
        p1 == [Log(p, IF p.currentOutputStream # NoStream THEN 1 ELSE 0)
                   EXCEPT !.currentOutputStream = Len(opened)]
        written == IF Len(p.outputHeaders) > 0 THEN writeHeaderSync(p1, opened)
                   ELSE opened
    IN [p |-> [Log(p1, 1) EXCEPT !.currentFileIndex = p.currentFileIndex + 1],
        fs |-> written]
\* CSVParser.createNewOutputStreamSync, on the pair (parser fields, files)
createNewOutputStreamSync(p, fs) ==
    LET closed == IF p.currentOutputStream # NoStream
                  THEN End(writeFooterSync(p, fs), p.currentOutputStream)
                  ELSE fs
        name == [chunk |-> -1, index |-> p.currentFileIndex,
                 ext |-> getFileExtension(p.formatter),
                 path |-> SequentialFileName(p.currentFileIndex,
                                             getFileExtension(p.formatter))]
        opened == Append(closed, [name |-> name, out |-> <<>>, ended |-> FALSE])
        p1 == [Log(p, IF p.currentOutputStream # NoStream THEN 1 ELSE 0)
                   EXCEPT !.currentOutputStream = Len(opened)]
        written == IF Len(p.outputHeaders) > 0 THEN writeHeaderSync(p1, opened)
                   ELSE opened
    IN [p |-> [Log(p1, 1) EXCEPT !.currentRowCount = 0,
                                 !.currentFileIndex = p.currentFileIndex + 1],
        fs |-> written]

(***************************************************************************)
(* The worker thread (workers/csv-worker.js, processChunk)                 *)
(***************************************************************************)
\* the worker's createNewOutputStream, on its locals st
WorkerCreateNewOutputStream(d, st) ==
    LET closed == IF st.currentOutputStream # NoStream
                  THEN End(st.fs, st.currentOutputStream)
                  ELSE st.fs
        name == [chunk |-> d.chunkIndex, index |-> st.currentFileIndex, ext |-> ".csv",
                 path |-> WorkerFileName(d.chunkIndex, st.currentFileIndex)]
        opened == Append(closed, [name |-> name, out |-> <<>>, ended |-> FALSE])
        written == IF d.outputFormat = "csv" /\ Len(d.headers) > 0
                   THEN Write(opened, Len(opened), "header", Join(d.headers, ","))
                   ELSE opened
    IN [st EXCEPT !.fs = written,
                  !.currentOutputStream = Len(opened),
                  !.filesCreated = Append(@, name),
                  !.currentRowCount = 0,
                  !.currentFileIndex = @ + 1]

\* the worker's applyTransformations (column include and its own validation;
\* it checks required, minLength and pattern only, and the rules handed to a
\* worker have no minLength and no pattern)
WorkerApplyTransformations(transformations, row) ==
    IF ~transformations.present THEN row
    ELSE LET filtered ==
                 IF Len(transformations.includeColumns) > 0
                 THEN LET present == AssignedKeys(SelectSeq(transformations.includeColumns,
                                               LAMBDA c : Get(row, c) # Undefined))
                      IN [i \in 1..Len(present) |->
                             <<present[i], Get(row, present[i])>>]
                 ELSE row
         IN IF \E i \in 1..Len(transformations.validation) :
                   /\ transformations.validation[i].required
                   /\ Get(filtered, transformations.validation[i].column)
                          \in {Undefined, ""}
            THEN Null
            ELSE filtered

\* the body of the worker's for loop over the lines of its byte range
RECURSIVE WorkerLoop(_, _, _)
WorkerLoop(d, lines, st) ==
    IF Len(lines) = 0 THEN st
    ELSE IF Len(lines[1]) = 0 THEN WorkerLoop(d, Tail(lines), st)
    ELSE LET values == Split(lines[1], ",")
             row == [i \in 1..Len(d.headers) |->
                        <<d.headers[i],
                          IF i <= Len(values) THEN FieldOf(values[i]) ELSE "">>]
             transformedRow == WorkerApplyTransformations(d.transformations, row)
         IN IF transformedRow = Null THEN WorkerLoop(d, Tail(lines), st)
            ELSE LET rowValues == [i \in 1..Len(d.headers) |->
                                      OrEmpty(Get(transformedRow, d.headers[i]))]
                     fs1 == CASE d.outputFormat = "csv" ->
                                    Write(st.fs, st.currentOutputStream, "row",
                                          Join(rowValues, ","))
                              [] d.outputFormat = "json" ->
                                    Write(st.fs, st.currentOutputStream, "row",
                                          JsonStringify(transformedRow))
                              [] OTHER -> st.fs
                     st1 == [st EXCEPT !.fs = fs1,
                                       !.currentRowCount = @ + 1,
                                       !.rowsProcessed = @ + 1]
                 IN WorkerLoop(d, Tail(lines),
                                IF st1.currentRowCount >= d.maxRowsPerFile
                                THEN WorkerCreateNewOutputStream(d, st1)
                                ELSE st1)

\* processChunk: the readStream 'end' handler over the bytes [startByte, endByte];
\* the result it posts and the files it wrote
processChunk(d) ==
    LET buffer == SubSeq(d.text, d.startByte + 1, d.endByte + 1)
        lines == Split(buffer, "\n")
        isFirstChunk == d.startByte = 0
        st0 == WorkerCreateNewOutputStream(d,
                   [fs |-> <<>>, currentOutputStream |-> NoStream,
                    currentFileIndex |-> 1, currentRowCount |-> 0,
                    rowsProcessed |-> 0, filesCreated |-> <<>>])
        st == WorkerLoop(d, IF isFirstChunk THEN Tail(lines) ELSE lines, st0)
    IN [results |-> [chunkIndex |-> d.chunkIndex,
                     rowsProcessed |-> st.rowsProcessed,
                     filesCreated |-> st.filesCreated,
                     errors |-> <<>>],
        fs |-> IF st.currentOutputStream # NoStream
               THEN End(st.fs, st.currentOutputStream)
               ELSE st.fs]

(***************************************************************************)
(* WorkerPool and CSVParser.processMultiThread                             *)
(***************************************************************************)
NoPool == [maxWorkers |-> 0, chunks |-> <<>>, workers |-> <<>>, promises |-> <<>>,
           results |-> <<>>, i |-> 0, fallback |-> FALSE]

\* a partitioning whose ranges would end one byte later (closed at start + chunkSize)
RECURSIVE ChunksFromInclusiveEnd(_, _, _)
ChunksFromInclusiveEnd(start, chunkSize, fileSize) ==
    IF start < fileSize
    THEN <<[startByte |-> start, endByte |-> Min(start + chunkSize, fileSize - 1)]>>
         \o ChunksFromInclusiveEnd(start + chunkSize, chunkSize, fileSize)
    ELSE <<>>
\* CSVParser.createFileChunks (chunkSize > 0)
RECURSIVE ChunksFrom(_, _, _)
ChunksFrom(start, chunkSize, fileSize) ==
    IF start < fileSize
    THEN <<[startByte |-> start, endByte |-> Min(start + chunkSize - 1, fileSize - 1)]>>
         \o ChunksFrom(start + chunkSize, chunkSize, fileSize)
    ELSE <<>>
createFileChunks(p, fileSize) ==
    ChunksFrom(0, Min(p.chunkSizeBytes, CeilDiv(fileSize, p.processCount)), fileSize)

\* the workerData of chunk c (chunkIndex c is position c + 1 of the chunk list)
WorkerDataOf(c) ==
    [text |-> source.text,
     startByte |-> pool.chunks[c + 1].startByte,
     endByte |-> pool.chunks[c + 1].endByte,
     chunkIndex |-> c,
     headers |-> parser.headers,
     maxRowsPerFile |-> parser.maxRowsPerFile,
     outputFormat |-> parser.outputFormat,
     transformations |-> parser.transformations]

Running(c) == pool.workers[c + 1] = "running"
Fulfilled(c) == pool.workers[c + 1] = "fulfilled"
Rejected(c) == pool.workers[c + 1] = "rejected"
Settled(c) == Fulfilled(c) \/ Rejected(c)
InFlight == {c \in 0..(Len(pool.workers) - 1) : Running(c)}

\* p === completed: a promise is never the value it was fulfilled with
SamePromise(promise, completed) == FALSE

\* promises.findIndex(p => p === completed)
findIndex(promises, completed) ==
    IF \E k \in 1..Len(promises) : SamePromise(promises[k], completed)
    THEN (CHOOSE k \in 1..Len(promises) :
              /\ SamePromise(promises[k], completed)
              /\ \A j \in 1..(k - 1) : ~SamePromise(promises[j], completed)) - 1
    ELSE -1

\* promises.splice(index, 1): a negative index counts from the end
splice(promises, index) ==
    LET at == IF index < 0 THEN (IF Len(promises) + index < 0 THEN 0
                                 ELSE Len(promises) + index)
              ELSE index
    IN IF at >= Len(promises) THEN promises
       ELSE SubSeq(promises, 1, at) \o SubSeq(promises, at + 2, Len(promises))

\* the for loop of processChunks from iteration i up to its next await
RECURSIVE LoopFrom(_, _)
LoopFrom(pl, i) ==
    IF i < Len(pl.chunks)
    THEN LET started == [pl EXCEPT !.workers[i + 1] = "running",
                                   !.promises = Append(@, i),
                                   !.i = i]
         IN IF Len(started.promises) >= started.maxWorkers
            THEN [pool |-> started, pc |-> "awaitRace"]
            ELSE LoopFrom(started, i + 1)
    ELSE [pool |-> [pl EXCEPT !.i = i], pc |-> "awaitAll"]

\* the first settled promise of the array, in array order
FirstSettled(promises) ==
    promises[CHOOSE k \in 1..Len(promises) :
                 /\ Settled(promises[k])
                 /\ \A j \in 1..(k - 1) : ~Settled(promises[j])]

\* a Promise.all that would wait for every promise to be fulfilled
AllReadyWhenAllFulfilled ==
    /\ pc = "awaitAll"
    /\ \A k \in 1..Len(pool.promises) : Fulfilled(pool.promises[k])
\* an awaited Promise.race or Promise.all can continue
RaceReady == pc = "awaitRace" /\ \E k \in 1..Len(pool.promises) : Settled(pool.promises[k])
AllReady ==
    /\ pc = "awaitAll"
    /\ \/ \E k \in 1..Len(pool.promises) : Rejected(pool.promises[k])
       \/ \A k \in 1..Len(pool.promises) : Fulfilled(pool.promises[k])

ResultOf(c) == processChunk(WorkerDataOf(c)).results

RECURSIVE SumRows(_)
SumRows(results) ==
    IF Len(results) = 0 THEN 0
    ELSE results[1].rowsProcessed + SumRows(Tail(results))
RECURSIVE SumFiles(_)
SumFiles(results) ==
    IF Len(results) = 0 THEN 0
    ELSE Len(results[1].filesCreated) + SumFiles(Tail(results))

(***************************************************************************)
(* CSVParser.process() and the sequential engine                           *)
(***************************************************************************)
NoCall == [fn |-> "none"]

InitWith(opts) ==
    /\ options \in opts
    /\ source \in Sources
    /\ pc = "new"
    /\ parser = NewParser(options)
    /\ dirCreated = FALSE
    /\ files = <<>>
    /\ readPos = 0
    /\ pool = NoPool
    /\ call = NoCall

SequentialOptions ==
    [outputFormat : FormatChoices,
     maxRowsPerFile : MaxRowsChoices,
     useMultipleProcesses : {FALSE},
     processCount : {0},
     chunkSizeBytes : {0},
     transformations : TransformationChoices,
     generateStats : {TRUE, FALSE},
     quiet : {FALSE}]

Init == InitWith(SequentialOptions)

\* process(): initializeFormatter, initializeTransformations, getFileStats
ProcessBegin ==
    /\ pc = "new"
    /\ LET formatter == createFormatter(parser.outputFormat)
           started == Log(parser, 5)
           initialized == [started EXCEPT
                     !.formatter = formatter,
                     !.transformationPipeline =
                         initializeTransformations(parser.transformations,
                                                   parser.generateStats)]
       IN IF formatter.class = "throw"
          THEN /\ pc' = "rejected"
               /\ parser' = LogError(started)
          \* getFileStats: fs.statSync throws for a path that does not exist
          ELSE IF source.status = "missing"
          THEN /\ pc' = "rejected"
               /\ parser' = LogError(initialized)
          ELSE /\ pc' = "ensureDir"
               /\ parser' = Log(initialized, 1)
    /\ UNCHANGED <<options, call, source, dirCreated, files, readPos, pool>>

\* process(): ensureOutputDirectory, then detectHeaders opens its read stream
EnsureOutputDirectory ==
    /\ pc = "ensureDir"
    /\ dirCreated' = TRUE
    /\ parser' = IF dirCreated THEN parser ELSE Log(parser, 1)
    /\ pc' = "detectHeaders"
    /\ UNCHANGED <<options, call, source, files, readPos, pool>>

\* detectHeaders: the 'headers' event, which csv() emits for the first line of
\* the file; for a file without a first line it emits none, and detectHeaders
\* listens to no 'end' event
OnHeaders ==
    /\ pc = "detectHeaders"
    /\ source.status = "ok"
    /\ Len(source.text) > 0
    /\ LET hdrs == CsvHeaders(source.text)
           outs == IF parser.transformationPipeline.present
                   THEN PipelineGetOutputHeaders(
                            parser.transformationPipeline.transformers, hdrs)
                   ELSE hdrs
       IN parser' = Log([parser EXCEPT !.headers = hdrs, !.outputHeaders = outs],
                        IF Len(outs) # Len(hdrs) THEN 3 ELSE 2)
    /\ pc' = "detected"
    /\ UNCHANGED <<options, call, source, dirCreated, files, readPos, pool>>

\* detectHeaders: the read stream fails to open; only the csv stream has an
\* 'error' listener, so the read stream's 'error' event is unhandled
OnReadStreamError ==
    /\ pc = "detectHeaders"
    /\ source.status = "unreadable"
    /\ pc' = "crashed"
    /\ UNCHANGED <<options, call, source, parser, dirCreated, files, readPos, pool>>

\* process() after the engine has returned: the final report and the statistics
Finish(p) ==
    LET reported == Log(p, 6)
    IN IF p.transformationPipeline.present /\ p.generateStats
       THEN LET stats == PipelineGetStatistics(p.transformationPipeline)
            IN [Log(reported,
                    IF stats.produced
                    THEN 3 + (IF Len(stats.columns) > 0
                              THEN 1 + Min(Len(stats.columns), 3) ELSE 0)
                    ELSE 0)
                EXCEPT !.statistics = stats]
       ELSE reported

\* processSingleThread up to the first event
ProcessSingleThreadBegin ==
    /\ pc = "detected"
    /\ ~parser.useMultipleProcesses
    /\ LET s == createNewOutputStreamSync(Log(parser, 1), files)
       IN /\ parser' = s.p
          /\ files' = s.fs
    /\ readPos' = 0
    /\ pc' = "streaming"
    /\ UNCHANGED <<options, call, source, dirCreated, pool>>

\* a catch that would count the row it skips
CatchRowErrorCountingRow(p) ==
    [p EXCEPT !.console = @ + 1, !.currentRowCount = @ + 1,
              !.totalRowsProcessed = @ + 1]
\* the catch of the 'data' handler: console.error, whatever quiet is
CatchRowError(p) == [p EXCEPT !.console = @ + 1]

\* processSingleThread: the 'data' handler, for one row
OnData ==
    /\ pc = "streaming"
    /\ readPos < Len(CsvRows(source.text))
    /\ readPos' = readPos + 1
    /\ LET row == CsvRows(source.text)[readPos + 1]
           transformedRow ==
               IF parser.transformationPipeline.present
               THEN PipelineTransform(parser.transformationPipeline, row)
               ELSE row
       IN IF transformedRow = Null
          THEN UNCHANGED <<parser, files>>
          ELSE IF transformedRow = Thrown
          THEN parser' = CatchRowError(parser) /\ UNCHANGED files
          ELSE LET fs1 == writeRowSync(parser, files, transformedRow)
                   p1 == [parser EXCEPT
                              !.transformationPipeline =
                                  IF @.present
                                  THEN PipelineAggregate(@, transformedRow,
                                                         parser.headers)
                                  ELSE @,
                              !.currentRowCount = @ + 1,
                              !.totalRowsProcessed = @ + 1]
                   s == IF p1.currentRowCount >= p1.maxRowsPerFile
                        THEN createNewOutputStreamSync(p1, fs1)
                        ELSE [p |-> p1, fs |-> fs1]
               IN /\ parser' = s.p
                  /\ files' = s.fs
    /\ UNCHANGED <<options, call, source, pc, dirCreated, pool>>

\* an 'end' handler that would finalize the open file only when it is full
OnEndLeavingPartialFileOpen ==
    /\ pc = "streaming"
    /\ readPos = Len(CsvRows(source.text))
    /\ files' = IF /\ parser.currentOutputStream # NoStream
                   /\ parser.currentRowCount >= parser.maxRowsPerFile
                THEN End(writeFooterSync(parser, files), parser.currentOutputStream)
                ELSE files
    /\ parser' = Finish(Log(parser, IF parser.currentOutputStream # NoStream
                                    THEN 1 ELSE 0))
    /\ pc' = "done"
    /\ UNCHANGED <<options, call, source, dirCreated, readPos, pool>>

\* processSingleThread: the 'end' handler; process() then reports and resolves
OnEnd ==
    /\ pc = "streaming"
    /\ readPos = Len(CsvRows(source.text))
    /\ files' = IF parser.currentOutputStream # NoStream
                THEN End(writeFooterSync(parser, files), parser.currentOutputStream)
                ELSE files
    /\ parser' = Finish(Log(parser, IF parser.currentOutputStream # NoStream
                                    THEN 1 ELSE 0))
    /\ pc' = "done"
    /\ UNCHANGED <<options, call, source, dirCreated, readPos, pool>>

Next ==
    \/ ProcessBegin
    \/ EnsureOutputDirectory
    \/ OnHeaders
    \/ OnReadStreamError
    \/ ProcessSingleThreadBegin
    \/ OnData
    \/ OnEnd

Spec == Init /\ [][Next]_vars

\* the csv stream of processSingleThread delivers its next event, as seen on pc
\* and readPos: a 'data' event (OnData) or the 'end' event (OnEnd)
StreamDelivers ==
    /\ pc = "streaming"
    /\ \/ readPos' = readPos + 1 /\ pc' = pc
       \/ readPos' = readPos /\ pc' = "done"

\* a piped read stream keeps flowing: while the engine is streaming, the next
\* 'data' or 'end' event is eventually delivered
SpecLive == Init /\ [][Next]_vars /\ WF_<<pc, readPos>>(StreamDelivers)

\* process() up to the first stream event, as seen on pc: the promise
\* continuations of process() run, and detectHeaders gets its 'headers' event
\* or the read stream its 'error' event when the file gives rise to one
ProcessProceeds ==
    /\ \/ pc \in {"new", "ensureDir", "detected"}
       \/ pc = "detectHeaders"
              /\ (source.status = "unreadable" \/ Len(source.text) > 0)
    /\ pc' \in {"rejected", "ensureDir", "detectHeaders", "detected", "crashed",
               "streaming"}
    /\ pc' # pc

\* sequential runs on the sources tried and on the empty file (no header line)
InitEmptyFile ==
    /\ options \in SequentialOptions
    /\ source \in Sources \cup {[status |-> "ok", text |-> <<>>]}
    /\ pc = "new"
    /\ parser = NewParser(options)
    /\ dirCreated = FALSE
    /\ files = <<>>
    /\ readPos = 0
    /\ pool = NoPool
    /\ call = NoCall
SpecEmptyFile ==
    InitEmptyFile /\ [][Next]_vars
        /\ WF_<<pc, readPos>>(StreamDelivers) /\ WF_pc(ProcessProceeds)

\* processMultiThread: new WorkerPool, createFileChunks, and processChunks up to
\* its first await
ProcessMultiThreadBegin ==
    /\ pc = "detected"
    /\ parser.useMultipleProcesses
    /\ LET chunks == createFileChunks(parser, Len(source.text))
           go == LoopFrom([NoPool EXCEPT
                               !.maxWorkers = parser.processCount,
                               !.chunks = chunks,
                               !.workers = [k \in 1..Len(chunks) |-> "unstarted"]],
                          0)
       IN /\ pool' = go.pool
          /\ pc' = go.pc
    /\ parser' = Log(parser, 3)
    /\ UNCHANGED <<options, call, source, dirCreated, files, readPos>>

\* a fallback that would carry the counts of the partitions completed so far
\* into the sequential engine
FallBackAddingPartialCounts ==
    LET done == SelectSeq([k \in 1..Len(pool.workers) |-> k - 1], Fulfilled)
        partial == [k \in 1..Len(done) |-> ResultOf(done[k])]
        s == createNewOutputStreamSync(
                 [Log(parser, 3) EXCEPT !.totalRowsProcessed = SumRows(partial),
                                        !.currentFileIndex = SumFiles(partial) + 1],
                 files)
    IN /\ parser' = s.p
       /\ files' = s.fs
       /\ readPos' = 0
       /\ pc' = "streaming"
       /\ pool' = [pool EXCEPT !.fallback = TRUE]
\* the catch of processMultiThread: processSingleThread up to its first event
FallBack ==
    LET s == createNewOutputStreamSync(Log(parser, 3), files)
    IN /\ parser' = s.p
       /\ files' = s.fs
       /\ readPos' = 0
       /\ pc' = "streaming"
       /\ pool' = [pool EXCEPT !.fallback = TRUE]

\* processChunks continues after await Promise.race(promises)
RaceSettles ==
    /\ RaceReady
    /\ LET winner == FirstSettled(pool.promises)
       IN IF Rejected(winner)
          THEN FallBack
          ELSE LET completed == ResultOf(winner)
                   go == LoopFrom(
                             [pool EXCEPT
                                 !.results = Append(@, completed),
                                 !.promises = splice(@, findIndex(@, completed))],
                             pool.i + 1)
               IN /\ pool' = go.pool
                  /\ pc' = go.pc
                  /\ UNCHANGED <<parser, files, readPos>>
    /\ UNCHANGED <<options, call, source, dirCreated>>

\* processChunks continues after await Promise.all(promises); processMultiThread
\* then sums the results and process() reports and resolves
AllSettles ==
    /\ AllReady
    /\ IF \E k \in 1..Len(pool.promises) : Rejected(pool.promises[k])
       THEN FallBack
       ELSE LET results == pool.results \o
                               [k \in 1..Len(pool.promises) |->
                                   ResultOf(pool.promises[k])]
            IN /\ pool' = [pool EXCEPT !.results = results]
               /\ parser' = Finish([parser EXCEPT
                      !.totalRowsProcessed = SumRows(results),
                      !.currentFileIndex = SumFiles(results) + 1])
               /\ pc' = "done"
               /\ UNCHANGED <<files, readPos>>
    /\ UNCHANGED <<options, call, source, dirCreated>>

\* a worker posts { success: true, results }: runWorker resolves its promise
WorkerCompletes(c) ==
    /\ Running(c)
    /\ ~RaceReady /\ ~AllReady
    /\ pool' = [pool EXCEPT !.workers[c + 1] = "fulfilled"]
    /\ files' = files \o processChunk(WorkerDataOf(c)).fs
    /\ UNCHANGED <<options, call, source, pc, parser, dirCreated, readPos>>

\* a worker posts { success: false } ("message"), raises 'error' or exits with a
\* non-zero code ("exit"): each of the three listeners rejects the promise
WorkerFails(c, how) ==
    /\ Running(c)
    /\ ~RaceReady /\ ~AllReady
    /\ how \in {"message", "error", "exit"}
    /\ pool' = [pool EXCEPT !.workers[c + 1] = "rejected"]
    /\ UNCHANGED <<options, call, source, pc, parser, dirCreated, files, readPos>>

NextPar ==
    \/ Next
    \/ ProcessMultiThreadBegin
    \/ RaceSettles
    \/ AllSettles
    \/ \E c \in 0..(Len(pool.workers) - 1) : WorkerCompletes(c)
    \/ \E c \in 0..(Len(pool.workers) - 1) :
           \E how \in {"message", "error", "exit"} : WorkerFails(c, how)

ParallelOptions ==
    [outputFormat : {"csv", "json"},
     maxRowsPerFile : 1..MaxRowsOpt,
     useMultipleProcesses : {TRUE, FALSE},
     processCount : {0, 1, 2},
     chunkSizeBytes : {0, SmallChunkBytes},
     transformations : TransformationChoices,
     generateStats : {FALSE},
     quiet : {FALSE}]

InitPar == InitWith(ParallelOptions)

SpecPar == InitPar /\ [][NextPar]_vars

\* WorkerPool.processChunks called with the chunk list of a file of 0 bytes (no
\* chunk) or more: the parser fields are those of a run that has detected the
\* header line, which for the file of 0 bytes stand for the workerData handed in
InitPool ==
    /\ options \in [outputFormat : {"csv"},
                    maxRowsPerFile : 1..MaxRowsOpt,
                    useMultipleProcesses : {TRUE},
                    processCount : 1..MaxWorkers,
                    chunkSizeBytes : {0, SmallChunkBytes},
                    transformations : {NoTransformations},
                    generateStats : {FALSE},
                    quiet : {FALSE}]
    /\ source \in {[status |-> "ok", text |-> <<>>]}
                     \cup {s \in Sources : s.status = "ok"}
    /\ pc = "detected"
    /\ parser = [NewParser(options) EXCEPT
                     !.formatter = createFormatter(options.outputFormat),
                     !.headers = InputHeaders,
                     !.outputHeaders = InputHeaders]
    /\ dirCreated = TRUE
    /\ files = <<>>
    /\ readPos = 0
    /\ pool = NoPool
    /\ call = NoCall

\* a started worker posts its result or its failure, raises 'error' or exits,
\* as seen on the promises of the pool
WorkerSettles ==
    \E c \in 0..(Len(pool.workers) - 1) :
        /\ Running(c)
        /\ ~RaceReady /\ ~AllReady
        /\ \E outcome \in {"fulfilled", "rejected"} :
               pool' = [pool EXCEPT !.workers[c + 1] = outcome]
\* processChunks is entered, or continues after an await whose promise has
\* settled, as seen on pc: it leaves the await, or (after a race) comes to its
\* next await with one more chunk started
AwaitContinues ==
    /\ pc = "detected" \/ RaceReady \/ AllReady
    /\ pc' \in {"awaitRace", "awaitAll", "done", "streaming"}
    /\ pc' # pc

SpecPool ==
    InitPool
        /\ [][\/ ProcessMultiThreadBegin
              \/ RaceSettles
              \/ AllSettles
              \/ \E c \in 0..(Len(pool.workers) - 1) : WorkerCompletes(c)
              \/ \E c \in 0..(Len(pool.workers) - 1) :
                     \E how \in {"message", "error", "exit"} : WorkerFails(c, how)]_vars
        /\ WF_pool(WorkerSettles) /\ WF_pc(AwaitContinues)

(***************************************************************************)
(* A second run of the same configuration on the same source               *)
(***************************************************************************)
\* the record counts of a list of files: how many files hold n data rows
RecordCounts(fs) ==
    [n \in 0..MaxRowsOpt |->
        Cardinality({k \in 1..Len(fs) : Len(DataRows(fs[k])) = n})]

\* after a run has resolved and its workers have ended: the output directory
\* is emptied and a new CSVParser with the same options processes the source
Rerun ==
    /\ pc = "done"
    /\ InFlight = {}
    /\ call = NoCall
    /\ call' = [fn |-> "process",
                totalRowsProcessed |-> parser.totalRowsProcessed,
                recordCounts |-> RecordCounts(files)]
    /\ parser' = NewParser(options)
    /\ files' = <<>>
    /\ readPos' = 0
    /\ pool' = NoPool
    /\ pc' = "new"
    /\ UNCHANGED <<options, source, dirCreated>>

RerunOptions ==
    [outputFormat : {"csv"},
     maxRowsPerFile : 1..MaxRowsOpt,
     useMultipleProcesses : {TRUE, FALSE},
     processCount : {1, 2},
     chunkSizeBytes : {0, SmallChunkBytes},
     transformations : {NoTransformations},
     generateStats : {FALSE},
     quiet : {FALSE}]

InitRerun == InitWith(RerunOptions)

\* the workers complete in any order; none fails
NextRerun ==
    \/ Next
    \/ ProcessMultiThreadBegin
    \/ RaceSettles
    \/ AllSettles
    \/ \E c \in 0..(Len(pool.workers) - 1) : WorkerCompletes(c)
    \/ Rerun

SpecRerun == InitRerun /\ [][NextRerun]_vars

\* after a run has resolved: the output directory is emptied and a new
\* CSVParser processes the source with the same options but quiet negated
RerunQuietNegated ==
    /\ pc = "done"
    /\ InFlight = {}
    /\ call = NoCall
    /\ call' = [fn |-> "process",
                files |-> files,
                totalRowsProcessed |-> parser.totalRowsProcessed,
                currentRowCount |-> parser.currentRowCount,
                currentFileIndex |-> parser.currentFileIndex,
                console |-> parser.console]
    /\ options' = [options EXCEPT !.quiet = ~@]
    /\ parser' = NewParser(options')
    /\ files' = <<>>
    /\ readPos' = 0
    /\ pool' = NoPool
    /\ pc' = "new"
    /\ UNCHANGED <<source, dirCreated>>

\* one worker for the whole file, so that a parallel run has one outcome
QuietOptions ==
    [outputFormat : {"csv", "json", "xml"},
     maxRowsPerFile : 1..MaxRowsOpt,
     useMultipleProcesses : {TRUE, FALSE},
     processCount : {1},
     chunkSizeBytes : {0},
     transformations : TransformationChoices,
     generateStats : {TRUE, FALSE},
     quiet : {TRUE, FALSE}]

InitQuiet == InitWith(QuietOptions)

NextQuiet ==
    \/ Next
    \/ ProcessMultiThreadBegin
    \/ RaceSettles
    \/ AllSettles
    \/ \E c \in 0..(Len(pool.workers) - 1) : WorkerCompletes(c)
    \/ RerunQuietNegated

SpecQuiet == InitQuiet /\ [][NextQuiet]_vars

\* after a parallel run that fell back has resolved and its workers have
\* ended: the output directory is emptied and a new CSVParser processes the
\* source with the same options but useMultipleProcesses false
RerunSequentialOnly ==
    /\ pc = "done"
    /\ pool.fallback
    /\ InFlight = {}
    /\ call = NoCall
    /\ call' = [fn |-> "process",
                totalRowsProcessed |-> parser.totalRowsProcessed,
                currentFileIndex |-> parser.currentFileIndex,
                files |-> SelectSeq(files, LAMBDA f : f.name.chunk = -1),
                partitionFiles |-> SelectSeq(files, LAMBDA f : f.name.chunk >= 0)]
    /\ options' = [options EXCEPT !.useMultipleProcesses = FALSE]
    /\ parser' = NewParser(options')
    /\ files' = <<>>
    /\ readPos' = 0
    /\ pool' = NoPool
    /\ pc' = "new"
    /\ UNCHANGED <<source, dirCreated>>

FallbackOptions ==
    [outputFormat : {"csv", "parquet"},
     maxRowsPerFile : 1..MaxRowsOpt,
     useMultipleProcesses : {TRUE},
     processCount : {1, 2},
     chunkSizeBytes : {0, SmallChunkBytes},
     transformations : TransformationChoices,
     generateStats : {FALSE},
     quiet : {FALSE}]

InitFallback == InitWith(FallbackOptions)
NextFallback ==
    \/ NextPar
    \/ RerunSequentialOnly
SpecFallback == InitFallback /\ [][NextFallback]_vars

(***************************************************************************)
(* Sequential runs in which the validator throws on some rows              *)
(***************************************************************************)
\* the rule on age with a pattern that is not a regular expression
BrokenPatternRule ==
    [column |-> "age", required |-> FALSE, type |-> "number", hasMin |-> TRUE,
     min |-> 18, pattern |-> InvalidPattern]

RowErrorOptions ==
    [outputFormat : {"csv", "xml"},
     maxRowsPerFile : 1..MaxRowsOpt,
     useMultipleProcesses : {FALSE},
     processCount : {0},
     chunkSizeBytes : {0},
     transformations :
         {[NoTransformations EXCEPT !.present = TRUE,
                                    !.validation = <<BrokenPatternRule>>],
          [NoTransformations EXCEPT !.present = TRUE,
                                    !.validation = <<AdultRule, BrokenPatternRule>>]},
     generateStats : {TRUE, FALSE},
     quiet : {TRUE, FALSE}]

\* source files of which some rows have an empty age (the line 'B,')
RECURSIVE LinesWithEmptyAges(_, _)
LinesWithEmptyAges(n, empty) ==
    IF n = 0 THEN <<InputHeaders>>
    ELSE Append(LinesWithEmptyAges(n - 1, empty),
                IF n \in empty THEN <<SourceValues(n)[1], "">> ELSE SourceValues(n))
RowErrorSources ==
    {[status |-> "ok",
      text |-> SelectSeq(JoinLines(LinesWithEmptyAges(n, empty)),
                         LAMBDA token : token # "")] :
        n \in 0..MaxRows, empty \in SUBSET (1..MaxRows)}
    \cup {s \in Sources : s.status # "ok"}

InitRowError ==
    /\ options \in RowErrorOptions
    /\ source \in RowErrorSources
    /\ pc = "new"
    /\ parser = NewParser(options)
    /\ dirCreated = FALSE
    /\ files = <<>>
    /\ readPos = 0
    /\ pool = NoPool
    /\ call = NoCall

SpecRowError == InitRowError /\ [][Next]_vars

(***************************************************************************)
(* Sequential runs that convert field types or filter every column out     *)
(***************************************************************************)
ReshapeOptions ==
    [outputFormat : {"csv", "tsv", "xml", "json"},
     maxRowsPerFile : 1..MaxRowsOpt,
     useMultipleProcesses : {FALSE},
     processCount : {0},
     chunkSizeBytes : {0},
     transformations :
         {[NoTransformations EXCEPT !.present = TRUE, !.typeConversions = c] :
             c \in {<<<<"age", "number">>>>, <<<<"name", "number">>>>,
                    <<<<"name", "boolean">>>>}}
         \cup {[NoTransformations EXCEPT !.present = TRUE,
                                         !.includeColumns = <<"zip">>]},
     generateStats : {TRUE, FALSE},
     quiet : {FALSE}]

SpecReshape == InitWith(ReshapeOptions) /\ [][Next]_vars

(***************************************************************************)
(* Direct calls of the exported classes and functions                      *)
(***************************************************************************)
DirectOptions ==
    [outputFormat |-> "csv", maxRowsPerFile |-> 0, useMultipleProcesses |-> FALSE,
     processCount |-> 0, chunkSizeBytes |-> 0, transformations |-> NoTransformations,
     generateStats |-> FALSE, quiet |-> FALSE]

InitCall(calls) ==
    /\ options = DirectOptions
    /\ source = [status |-> "ok", text |-> SourceText(0)]
    /\ pc = "new"
    /\ parser = NewParser(options)
    /\ dirCreated = FALSE
    /\ files = <<>>
    /\ readPos = 0
    /\ pool = NoPool
    /\ call \in calls

\* column names and column lists handed to new ColumnFilter(include, exclude)
Columns == {"name", "age", "zip"}
ColumnLists ==
    UNION {[1..n -> Columns] : n \in 0..MaxCols}
\* rows csv() can deliver under InputHeaders: a short line gives fewer keys
FilterRows ==
    {CsvRow(InputHeaders, SubSeq(Join(SourceValues(1), ","), 1, n)) : n \in {0, 1, 3}}

ColumnFilterCalls ==
    {[fn |-> "ColumnFilter",
      filter |-> [kind |-> "ColumnFilter", includeColumns |-> inc,
                  excludeColumns |-> exc, rules |-> <<>>],
      headers |-> InputHeaders, row |-> row,
      transformed |-> FALSE, result |-> <<>>,
      headersAsked |-> FALSE, outputHeaders |-> <<>>] :
        inc \in ColumnLists, exc \in ColumnLists, row \in FilterRows}

\* filter.transform(row, headers)
CallColumnFilterTransform ==
    /\ call.fn = "ColumnFilter" /\ ~call.transformed
    /\ call' = [call EXCEPT !.transformed = TRUE,
                            !.result = ColumnFilterTransform(call.filter, call.row)]
    /\ UNCHANGED <<options, source, pc, parser, dirCreated, files, readPos, pool>>

\* filter.getOutputHeaders(headers)
CallColumnFilterGetOutputHeaders ==
    /\ call.fn = "ColumnFilter" /\ ~call.headersAsked
    /\ call' = [call EXCEPT !.headersAsked = TRUE,
                            !.outputHeaders =
                                ColumnFilterGetOutputHeaders(call.filter, call.headers)]
    /\ UNCHANGED <<options, source, pc, parser, dirCreated, files, readPos, pool>>

InitFilter == InitCall(ColumnFilterCalls)
NextFilter == CallColumnFilterTransform \/ CallColumnFilterGetOutputHeaders
SpecFilter == InitFilter /\ [][NextFilter]_vars

\* new JSONFormatter({ format }): its fields
JSONFormatter(format) ==
    [class |-> "JSONFormatter", format |-> IF format = "" THEN "jsonl" ELSE format,
     isFirstRow |-> TRUE]

\* a writeHeader that would not reset isFirstRow
JSONFormatterWriteHeaderKeepsFlag(f, stream) ==
    [f |-> f,
     stream |-> IF f.format = "array" THEN stream \o <<"[", "\n">> ELSE stream]
\* JSONFormatter.writeHeader(stream, headers): the formatter and the stream after it
JSONFormatterWriteHeader(f, stream) ==
    [f |-> [f EXCEPT !.isFirstRow = TRUE],
     stream |-> IF f.format = "array" THEN stream \o <<"[", "\n">> ELSE stream]

\* JSONFormatter.writeRow(stream, row, headers)
JSONFormatterWriteRow(f, stream, row) ==
    CASE f.format = "jsonl" ->
            [f |-> f, stream |-> stream \o JsonStringify(row) \o <<"\n">>]
      [] f.format = "array" ->
            [f |-> [f EXCEPT !.isFirstRow = FALSE],
             stream |-> stream
                        \o (IF ~f.isFirstRow THEN <<",", "\n">> ELSE <<>>)
                        \o <<"  ">> \o JsonStringify(row)]
      [] OTHER -> [f |-> f, stream |-> stream]

\* JSONFormatter.writeFooter(stream)
JSONFormatterWriteFooter(f, stream) ==
    [f |-> f,
     stream |-> IF f.format = "array" THEN stream \o <<"\n", "]", "\n">> ELSE stream]

\* one JSONFormatter instance used for successive files: header, rows, footer
JSONFormatterCalls ==
    {[fn |-> "JSONFormatter", formatter |-> JSONFormatter(format),
      streams |-> <<>>, counts |-> <<>>, open |-> FALSE] :
        format \in {"array", "jsonl", "json"}}

CallJSONWriteHeader ==
    /\ call.fn = "JSONFormatter" /\ ~call.open
    /\ Len(call.streams) < MaxJsonFiles
    /\ LET w == JSONFormatterWriteHeader(call.formatter, <<>>)
       IN call' = [call EXCEPT !.formatter = w.f,
                               !.streams = Append(@, w.stream),
                               !.counts = Append(@, 0),
                               !.open = TRUE]
    /\ UNCHANGED <<options, source, pc, parser, dirCreated, files, readPos, pool>>

CallJSONWriteRow ==
    /\ call.fn = "JSONFormatter" /\ call.open
    /\ call.counts[Len(call.counts)] < MaxJsonRows
    /\ \E row \in FilterRows :
           LET k == Len(call.streams)
               w == JSONFormatterWriteRow(call.formatter, call.streams[k], row)
           IN call' = [call EXCEPT !.formatter = w.f,
                                   !.streams[k] = w.stream,
                                   !.counts[k] = @ + 1]
    /\ UNCHANGED <<options, source, pc, parser, dirCreated, files, readPos, pool>>

CallJSONWriteFooter ==
    /\ call.fn = "JSONFormatter" /\ call.open
    /\ LET k == Len(call.streams)
           w == JSONFormatterWriteFooter(call.formatter, call.streams[k])
       IN call' = [call EXCEPT !.formatter = w.f,
                               !.streams[k] = w.stream,
                               !.open = FALSE]
    /\ UNCHANGED <<options, source, pc, parser, dirCreated, files, readPos, pool>>

InitJson == InitCall(JSONFormatterCalls)
NextJson == CallJSONWriteHeader \/ CallJSONWriteRow \/ CallJSONWriteFooter
SpecJson == InitJson /\ [][NextJson]_vars

\* Field values as character sequences, for the escaping of the csv writer
Quote == "\""
Chars == {"a", ",", Quote, "\n", "\r"}
CharStrings == UNION {[1..n -> Chars] : n \in 0..MaxValueLen}

\* str.replace(/"/g, '""')
RECURSIVE DoubleQuotes(_)
DoubleQuotes(str) ==
    IF Len(str) = 0 THEN <<>>
    ELSE (IF str[1] = Quote THEN <<Quote, Quote>> ELSE <<str[1]>>)
         \o DoubleQuotes(Tail(str))

\* an escaping that would not double the double quotes
escapeCSVValueNoDoubling(str) ==
    IF \E i \in 1..Len(str) : str[i] \in {",", Quote, "\n", "\r"}
    THEN <<Quote>> \o str \o <<Quote>>
    ELSE str
\* escapeCSVValue(value), value a string
escapeCSVValue(str) ==
    IF \E i \in 1..Len(str) : str[i] \in {",", Quote, "\n", "\r"}
    THEN <<Quote>> \o DoubleQuotes(str) \o <<Quote>>
    ELSE str

\* headers.map(header => this.escapeCSVValue(row[header] || '')).join(',') + '\n'
RECURSIVE JoinEscaped(_, _)
JoinEscaped(row, headers) ==
    IF Len(headers) = 0 THEN <<>>
    ELSE escapeCSVValue(IF HasKey(row, headers[1]) THEN Get(row, headers[1]) ELSE <<>>)
         \o (IF Len(headers) > 1 THEN <<",">> ELSE <<>>)
         \o JoinEscaped(row, Tail(headers))
CSVFormatterWriteRow(stream, row, headers) ==
    stream \o JoinEscaped(row, headers) \o <<"\n">>

\* rows of two columns whose values are written with the csv writer
CSVFormatterCalls ==
    {[fn |-> "CSVFormatter", headers |-> InputHeaders,
      row |-> <<<<InputHeaders[1], v>>, <<InputHeaders[2], w>>>>,
      written |-> FALSE, stream |-> <<>>] :
        v \in CharStrings, w \in {<<>>, <<"a">>, <<Quote>>}}

CallCSVWriteRow ==
    /\ call.fn = "CSVFormatter" /\ ~call.written
    /\ call' = [call EXCEPT !.written = TRUE,
                            !.stream = CSVFormatterWriteRow(<<>>, call.row, call.headers)]
    /\ UNCHANGED <<options, source, pc, parser, dirCreated, files, readPos, pool>>

InitCsv == InitCall(CSVFormatterCalls)
NextCsv == CallCSVWriteRow
SpecCsv == InitCsv /\ [][NextCsv]_vars

\* createFileChunks called on a parser with positive processCount and
\* chunkSizeBytes, for a file of positive size
CreateFileChunksCalls ==
    {[fn |-> "createFileChunks", fileSize |-> f, processCount |-> w,
      chunkSizeBytes |-> b, called |-> FALSE, chunks |-> <<>>] :
        f \in 1..MaxFileSize, w \in 1..MaxWorkers, b \in 1..MaxChunkBytes}

CallCreateFileChunks ==
    /\ call.fn = "createFileChunks" /\ ~call.called
    /\ call' = [call EXCEPT
                   !.called = TRUE,
                   !.chunks = createFileChunks([processCount |-> call.processCount,
                                                chunkSizeBytes |-> call.chunkSizeBytes],
                                               call.fileSize)]
    /\ UNCHANGED <<options, source, pc, parser, dirCreated, files, readPos, pool>>

InitChunks == InitCall(CreateFileChunksCalls)
NextChunks == CallCreateFileChunks
SpecChunks == InitChunks /\ [][NextChunks]_vars

\* { ...row } that would hand back the same object
SpreadSharing(heap, a) == [heap |-> heap, at |-> a]
\* { ...row } on a heap of objects: a new object with the entries of the object
\* at address a
Spread(heap, a) == [heap |-> Append(heap, heap[a]), at |-> Len(heap) + 1]

\* transformer.transform(row, headers), and aggregator.process(row, headers),
\* for the row object at address a: the heap afterwards, the address returned
\* (0 for null) and the fields of the transformer afterwards
TransformerCall(t, heap, a, headers) ==
    CASE t.kind \in {"ColumnFilter", "DataTypeConverter"} ->
             LET result == Spread(heap, a)
             IN [heap |-> [result.heap EXCEPT
                              ![result.at] = TransformerTransform(t, @)],
                 returned |-> result.at,
                 transformer |-> t]
      [] t.kind = "DataValidator" ->
             [heap |-> heap,
              returned |-> IF DataValidatorTransform(t, heap[a]) = Null THEN 0 ELSE a,
              transformer |-> t]
      [] t.kind = "Aggregator" ->
             [heap |-> heap,
              returned |-> a,
              transformer |-> [t EXCEPT !.aggregator =
                                  AggregatorProcess(@, heap[a], headers)]]

\* the transformers and rows tried: rows of one or two fields, with a name that
\* is a boolean word, a date or neither, and an age that is a number or empty
TransformerCalls ==
    LET transformers ==
            {[kind |-> "ColumnFilter", includeColumns |-> inc, excludeColumns |-> exc,
              rules |-> <<>>] :
                inc \in {<<>>, <<"name">>}, exc \in {<<>>, <<"age">>}}
            \cup {[kind |-> "DataTypeConverter", conversions |-> c] :
                    c \in {<<<<"age", "number">>>>, <<<<"name", "number">>>>,
                           <<<<"name", "boolean">>>>, <<<<"name", "date">>>>,
                           <<<<"age", "number">>, <<"name", "boolean">>>>}}
            \cup {[kind |-> "DataValidator", includeColumns |-> <<>>,
                   excludeColumns |-> <<>>, rules |-> <<rule>>] :
                    rule \in {AdultRule, [AdultRule EXCEPT !.required = TRUE]}}
            \cup {[kind |-> "Aggregator", aggregator |-> NewAggregator]}
        rows == {<<<<"name", n>>, <<"age", a>>>> :
                    n \in {"A", "yes", "", "2025-06-02T10:00Z"}, a \in {"30", "17", ""}}
                \cup {<<<<"name", "A">>>>}
    IN {[fn |-> "Transformer", transformer |-> t, headers |-> InputHeaders,
         row |-> row, heap |-> <<row>>, done |-> FALSE, returned |-> 0] :
           t \in transformers, row \in rows}

\* transformer.transform(row, headers) with the row object at address 1
CallTransformerTransform ==
    /\ call.fn = "Transformer" /\ ~call.done
    /\ LET r == TransformerCall(call.transformer, call.heap, 1, call.headers)
       IN call' = [call EXCEPT !.done = TRUE, !.heap = r.heap,
                               !.returned = r.returned,
                               !.transformer = r.transformer]
    /\ UNCHANGED <<options, source, pc, parser, dirCreated, files, readPos, pool>>

SpecTransformers == InitCall(TransformerCalls) /\ [][CallTransformerTransform]_vars

\* new ParquetFormatter({ batchSize }) and the rows handed to it; the stream is
\* the list of the lines written, each the JSON text of one { schema, data }
ParquetCalls ==
    {[fn |-> "ParquetFormatter", batchSize |-> OrDefault(b, 10000),
      headers |-> <<>>, rows |-> <<>>, stream |-> <<>>,
      phase |-> "new", passed |-> <<>>] : b \in 0..MaxBatchSize}

\* formatter.writeHeader(stream, headers)
CallParquetWriteHeader ==
    /\ call.fn = "ParquetFormatter" /\ call.phase = "new"
    /\ call' = [call EXCEPT !.headers = InputHeaders, !.rows = <<>>,
                            !.phase = "open"]
    /\ UNCHANGED <<options, source, pc, parser, dirCreated, files, readPos, pool>>

\* a writeRow that would flush only a buffer longer than the batch size
CallParquetWriteRowFlushingLate ==
    /\ call.fn = "ParquetFormatter" /\ call.phase = "open"
    /\ Len(call.passed) < MaxBatchRows
    /\ \E i \in 1..2 :
          LET row == CsvRow(InputHeaders, Join(SourceValues(i), ","))
              pushed == Append(call.rows, row)
          IN call' = IF Len(pushed) > call.batchSize
                     THEN [call EXCEPT
                              !.stream = Append(@, [schema |-> call.headers,
                                                    data |-> pushed]),
                              !.rows = <<>>,
                              !.passed = Append(@, row)]
                     ELSE [call EXCEPT !.rows = pushed, !.passed = Append(@, row)]
    /\ UNCHANGED <<options, source, pc, parser, dirCreated, files, readPos, pool>>

\* formatter.writeRow(stream, row, headers), with writeBatch
CallParquetWriteRow ==
    /\ call.fn = "ParquetFormatter" /\ call.phase = "open"
    /\ Len(call.passed) < MaxBatchRows
    /\ \E i \in 1..2 :
          LET row == CsvRow(InputHeaders, Join(SourceValues(i), ","))
              pushed == Append(call.rows, row)
          IN call' = IF Len(pushed) >= call.batchSize
                     THEN [call EXCEPT
                              !.stream = Append(@, [schema |-> call.headers,
                                                    data |-> pushed]),
                              !.rows = <<>>,
                              !.passed = Append(@, row)]
                     ELSE [call EXCEPT !.rows = pushed, !.passed = Append(@, row)]
    /\ UNCHANGED <<options, source, pc, parser, dirCreated, files, readPos, pool>>

\* formatter.writeFooter(stream), with writeBatch
CallParquetWriteFooter ==
    /\ call.fn = "ParquetFormatter" /\ call.phase = "open"
    /\ call' = IF Len(call.rows) > 0
               THEN [call EXCEPT
                        !.stream = Append(@, [schema |-> call.headers,
                                              data |-> call.rows]),
                        !.rows = <<>>,
                        !.phase = "closed"]
               ELSE [call EXCEPT !.phase = "closed"]
    /\ UNCHANGED <<options, source, pc, parser, dirCreated, files, readPos, pool>>

SpecParquet ==
    InitCall(ParquetCalls)
        /\ [][CallParquetWriteHeader \/ CallParquetWriteRow
                  \/ CallParquetWriteFooter]_vars

(***************************************************************************)
(* Claims                                                                  *)
(***************************************************************************)
RECURSIVE SumDataRows(_)
SumDataRows(fs) ==
    IF Len(fs) = 0 THEN 0 ELSE Len(DataRows(fs[1])) + SumDataRows(Tail(fs))

\* the lines of the data rows of a list of files, in file order
RECURSIVE AllDataLines(_)
AllDataLines(fs) ==
    IF Len(fs) = 0 THEN <<>>
    ELSE [i \in 1..Len(DataRows(fs[1])) |-> DataRows(fs[1])[i].line]
         \o AllDataLines(Tail(fs))

SequentialRun == ~parser.useMultipleProcesses
SupportedFormat == options.outputFormat \in getSupportedFormats
HasValidator == Len(options.transformations.validation) > 0
\* the formats for which writeRowSync has a branch
RowWritingFormats == {"csv", "json", "jsonl", "xml", "tsv"}

\* C1: in every run with a supported format name and a positive maxRowsPerFile,
\* every output file except the last one created contains exactly
\* maxRowsPerFile data rows, and no file contains more than maxRowsPerFile.
C1_FilesHoldMaxRowsPerFile ==
    (SupportedFormat /\ parser.maxRowsPerFile > 0) =>
        \A k \in 1..Len(files) :
            /\ Len(DataRows(files[k])) <= parser.maxRowsPerFile
            /\ (k < Len(files) =>
                    Len(DataRows(files[k])) = parser.maxRowsPerFile)

\* C2: when a sequential run with a supported format and no Validator is done,
\* the rows-written counter equals the number of data rows read from the
\* source, and the data rows held by all output files sum to that counter.
C2_WrittenEqualsRead ==
    (pc = "done" /\ SequentialRun /\ SupportedFormat /\ ~HasValidator) =>
        /\ parser.totalRowsProcessed = Len(CsvRows(source.text))
        /\ SumDataRows(files) = parser.totalRowsProcessed

\* C3: a finished sequential run that wrote W >= 1 rows with maxRowsPerFile = M
\* (in a format writeRowSync writes) created exactly ceil(W / M) output files,
\* M rows in every file but the last and the remaining rows in the last.
C3_CeilFiles ==
    (/\ pc = "done" /\ SequentialRun
     /\ options.outputFormat \in RowWritingFormats
     /\ parser.maxRowsPerFile > 0
     /\ parser.totalRowsProcessed >= 1) =>
        LET W == parser.totalRowsProcessed
            M == parser.maxRowsPerFile
        IN /\ Len(files) = CeilDiv(W, M)
           /\ \A k \in 1..Len(files) :
                  Len(DataRows(files[k])) =
                      IF k < Len(files) THEN M ELSE W - M * (Len(files) - 1)

\* C4: every output file of a csv or tsv run starts with the header line of the
\* output header list, written once, before any data row.
C4_HeaderLineInEveryFile ==
    (options.outputFormat \in {"csv", "tsv"}) =>
        \A k \in 1..Len(files) :
            LET sep == IF options.outputFormat = "csv" THEN "," ELSE "\t"
                out == files[k].out
            IN /\ Len(out) >= 1
               /\ out[1] = [kind |-> "header", line |-> Join(parser.outputHeaders, sep)]
               /\ \A j \in 2..Len(out) : out[j].kind # "header"

\* C5: every output file name ends with the file extension of the configured
\* output format, in sequential mode and in parallel mode.
C5_FileExtension ==
    SupportedFormat =>
        \A k \in 1..Len(files) :
            files[k].name.ext = getFileExtension(createFormatter(options.outputFormat))

\* C6: when the source path is missing or unreadable, process() rejects before
\* any output is produced: the output directory is not created, no output file
\* is opened and no result is reported.
C6_SourceUnavailable ==
    (source.status \in {"missing", "unreadable"}) =>
        /\ ~dirCreated
        /\ Len(files) = 0
        /\ pc \notin {"done", "crashed"}

\* C7: a configuration with an unsupported output format name or a non-positive
\* maxRowsPerFile is rejected before streaming starts: no row is read or
\* written and no output file is opened.
C7_ConfigurationInvalid ==
    (\/ createFormatter(options.outputFormat).class = "throw"
     \/ options.maxRowsPerFile < 0) =>
        /\ pc \notin {"streaming", "done"}
        /\ readPos = 0
        /\ Len(files) = 0

\* C8: in parallel mode, if a partition's worker has failed, the run does not
\* complete as a parallel run: whenever process() reaches its end without
\* having fallen back, no worker has failed.
C8_AnyFailureFallsBack ==
    [][(pc # "done" /\ pc' = "done" /\ parser.useMultipleProcesses
        /\ ~pool'.fallback) =>
           \A c \in 0..(Len(pool'.workers) - 1) : pool'.workers[c + 1] # "rejected"]_vars

\* C9: during processChunks the number of workers started and not yet completed
\* never exceeds maxWorkers.
C9_ConcurrencyCap ==
    (Len(pool.workers) > 0) => Cardinality(InFlight) <= pool.maxWorkers

\* C10: after a successful parallel run the result list holds the result of
\* every partition exactly once, the merged rowsProcessed is the sum over all
\* partitions and the merged file count is the number of files they created.
C10_EveryResultOnce ==
    (pc = "done" /\ parser.useMultipleProcesses /\ ~pool.fallback) =>
        LET all == [k \in 1..Len(pool.chunks) |-> ResultOf(k - 1)]
        IN /\ \A c \in 0..(Len(pool.chunks) - 1) :
                  Cardinality({k \in 1..Len(pool.results) :
                                  pool.results[k].chunkIndex = c}) = 1
           /\ parser.totalRowsProcessed = SumRows(all)
           /\ parser.currentFileIndex - 1 = SumFiles(all)

\* C11: within one run no two output files are opened under the same path:
\* worker file names differ for different (chunk index, file index) pairs and
\* differ from every name of the sequential engine, also when the run has
\* fallen back while workers are still writing.
NamesInjective ==
    \A c1, c2 \in 0..NameRange : \A i1, i2 \in 1..NameRange :
        /\ (<<c1, i1>> # <<c2, i2>> => WorkerFileName(c1, i1) # WorkerFileName(c2, i2))
        /\ \A ext \in {getFileExtension(createFormatter(f)) : f \in getSupportedFormats} :
               WorkerFileName(c1, i1) # SequentialFileName(i2, ext)
C11_DistinctPaths ==
    /\ NamesInjective
    /\ \A j, k \in 1..Len(files) :
           j # k => files[j].name.path # files[k].name.path
C11_Witness ==
    /\ pool.fallback
    /\ \E j, k \in 1..Len(files) :
           /\ files[j].name.chunk >= 0 /\ files[k].name.chunk = -1
           /\ files[j].name.index = files[k].name.index
    /\ \E j, k \in 1..Len(files) :
           /\ files[j].name.chunk >= 0 /\ files[k].name.chunk >= 0
           /\ files[j].name.chunk # files[k].name.chunk
           /\ files[j].name.index = files[k].name.index

\* C12: with a Validator and no ColumnFilter configured, the output header list
\* is the input header list, no output file ever holds a row that violates a
\* configured rule, and a finished sequential run has written exactly the
\* source rows that violate no rule, has counted exactly those, and so
\* rows written + rows dropped = rows read.
PassingRows == SelectSeq(CsvRows(source.text),
                         LAMBDA row : \A i \in 1..Len(options.transformations.validation) :
                             ~RuleViolated(options.transformations.validation[i], row))
WrittenLines == AllDataLines(files)
C12_ValidatorDropsViolatingRows ==
    (/\ HasValidator
     /\ Len(options.transformations.includeColumns) = 0
     /\ options.outputFormat = "csv") =>
        /\ (pc \in {"detected", "streaming", "awaitRace", "awaitAll", "done"} =>
                parser.outputHeaders = parser.headers)
        /\ \A i \in 1..Len(WrittenLines) :
               \A r \in 1..Len(options.transformations.validation) :
                   ~RuleViolated(options.transformations.validation[r],
                                 CsvRow(InputHeaders, WrittenLines[i]))
        /\ (pc = "done" /\ SequentialRun) =>
               /\ WrittenLines = [i \in 1..Len(PassingRows) |->
                                     Join([j \in 1..Len(InputHeaders) |->
                                              PassingRows[i][j][2]], ",")]
               /\ parser.totalRowsProcessed = Len(PassingRows)
               /\ parser.totalRowsProcessed + (readPos - Len(PassingRows)) = readPos

\* C13: for a ColumnFilter with includeColumns, getOutputHeaders(headers) is the
\* include list restricted to the columns of the input header; the keys of
\* transform(row) are all in getOutputHeaders(headers) for a row whose keys are
\* within headers; and excludeColumns is applied after includeColumns in both:
\* no excluded column is left in the output header list or in the row.
C13_FilteredKeysWithinOutputHeaders ==
    (call.fn = "ColumnFilter" /\ call.transformed /\ call.headersAsked) =>
        LET inc == call.filter.includeColumns
            exc == call.filter.excludeColumns
            kept == IF Len(inc) > 0
                    THEN SelectSeq(inc, LAMBDA c : Includes(call.headers, c))
                    ELSE call.headers
        IN /\ call.outputHeaders = SelectSeq(kept, LAMBDA c : ~Includes(exc, c))
           /\ \A i \in 1..Len(call.result) :
                  /\ Includes(call.outputHeaders, call.result[i][1])
                  /\ call.result[i][2] = Get(call.row, call.result[i][1])
           /\ \A i \in 1..Len(exc) :
                  ~Includes(call.outputHeaders, exc[i]) /\ ~HasKey(call.result, exc[i])
           /\ \A i, j \in 1..Len(call.result) :
                  i # j => call.result[i][1] # call.result[j][1]
C13_Witness ==
    /\ call.fn = "ColumnFilter" /\ call.transformed /\ call.headersAsked
    /\ call.filter.includeColumns = <<"age", "name">>
    /\ call.filter.excludeColumns = <<"age">>
    /\ Len(call.row) = 2
    /\ Keys(call.result) = <<"name">>
    /\ call.outputHeaders = <<"name">>

\* C14: every file a JSONFormatter of format 'array' has written with
\* writeHeader, n >= 0 writeRow calls and writeFooter is one well-formed array:
\* an opening bracket, n objects separated by exactly one comma with no leading
\* or trailing comma, a closing bracket; also for the second and later files
\* written by the same formatter instance.
NoWhitespace(tokens) == SelectSeq(tokens, LAMBDA t : t \notin {"\n", "  "})
\* the number of objects of a comma-separated list of objects, -1 if malformed
RECURSIVE CountElements(_)
CountElements(t) ==
    IF Len(t) = 0 \/ t[1] # "{" \/ ~Includes(t, "}") THEN -1
    ELSE LET k == CHOOSE i \in 1..Len(t) :
                      t[i] = "}" /\ \A j \in 1..(i - 1) : t[j] # "}"
             rest == SubSeq(t, k + 1, Len(t))
         IN IF \E j \in 2..(k - 1) : t[j] \in {"{", "[", "]"} THEN -1
            ELSE IF Len(rest) = 0 THEN 1
            ELSE IF rest[1] # "," \/ Len(rest) = 1 THEN -1
            ELSE LET r == CountElements(Tail(rest))
                 IN IF r < 0 THEN -1 ELSE 1 + r
\* the length of the array a text parses to, -1 if it is not one array
ArrayLength(tokens) ==
    LET t == NoWhitespace(tokens)
    IN IF Len(t) < 2 \/ t[1] # "[" \/ t[Len(t)] # "]" THEN -1
       ELSE IF Len(t) = 2 THEN 0
       ELSE CountElements(SubSeq(t, 2, Len(t) - 1))
C14_JsonArrayWellFormed ==
    (call.fn = "JSONFormatter" /\ call.formatter.format = "array") =>
        \A k \in 1..Len(call.streams) :
            (k < Len(call.streams) \/ ~call.open) =>
                ArrayLength(call.streams[k]) = call.counts[k]
C14_Witness ==
    /\ call.fn = "JSONFormatter" /\ call.formatter.format = "array"
    /\ ~call.open
    /\ call.counts = <<2, 2>>
    /\ ArrayLength(call.streams[2]) = 2

\* C15: every closed output file of a run with outputFormat 'json' is in JSON
\* array format: its text is one array holding the file's data rows.
RECURSIVE FileText(_)
FileText(out) ==
    IF Len(out) = 0 THEN <<>>
    ELSE out[1].line \o <<"\n">> \o FileText(Tail(out))
C15_JsonRunWritesArray ==
    (options.outputFormat = "json") =>
        \A k \in 1..Len(files) :
            files[k].ended =>
                ArrayLength(FileText(files[k].out)) = Len(DataRows(files[k]))

\* C16: a value over an alphabet with a comma, a double quote, a newline and a
\* carriage return, written by the csv writer and read back by an RFC 4180
\* reader, is the original value; and the written field is enclosed in double
\* quotes exactly when the value contains one of those four characters.
\* The RFC 4180 reader: the fields of the first record of a text.
RECURSIVE Rfc4180Fields(_, _, _, _)
Rfc4180Fields(text, inQuotes, field, fields) ==
    IF Len(text) = 0 THEN Append(fields, field)
    ELSE LET c == text[1]
             rest == Tail(text)
         IN IF inQuotes
            THEN IF c = Quote
                 THEN IF Len(rest) > 0 /\ rest[1] = Quote
                      THEN Rfc4180Fields(Tail(rest), TRUE, Append(field, Quote), fields)
                      ELSE Rfc4180Fields(rest, FALSE, field, fields)
                 ELSE Rfc4180Fields(rest, TRUE, Append(field, c), fields)
            ELSE IF c = Quote /\ Len(field) = 0
                 THEN Rfc4180Fields(rest, TRUE, field, fields)
            ELSE IF c = "," THEN Rfc4180Fields(rest, FALSE, <<>>, Append(fields, field))
            ELSE IF c = "\n" THEN Append(fields, field)
            ELSE Rfc4180Fields(rest, FALSE, Append(field, c), fields)
HasSpecial(str) == \E i \in 1..Len(str) : str[i] \in {",", Quote, "\n", "\r"}
Quoted(str) == Len(str) >= 2 /\ str[1] = Quote /\ str[Len(str)] = Quote
C16_CsvRoundTrip ==
    (call.fn = "CSVFormatter" /\ call.written) =>
        /\ Rfc4180Fields(call.stream, FALSE, <<>>, <<>>)
               = <<call.row[1][2], call.row[2][2]>>
        /\ \A i \in 1..2 :
               Quoted(escapeCSVValue(call.row[i][2])) <=> HasSpecial(call.row[i][2])
        /\ call.stream = escapeCSVValue(call.row[1][2]) \o <<",">>
                             \o escapeCSVValue(call.row[2][2]) \o <<"\n">>
C16_Witness ==
    /\ call.fn = "CSVFormatter" /\ call.written
    /\ call.row[1][2] = <<",", Quote, "\n">>
    /\ call.row[2][2] = <<Quote>>
    /\ Rfc4180Fields(call.stream, FALSE, <<>>, <<>>) = <<<<",", Quote, "\n">>, <<Quote>>>>

\* C17: a second run with the same configuration on the unchanged source, into
\* the emptied output directory, ends with the same total row count and the
\* same record counts per file as the first run, whatever the order in which
\* the workers complete.
C17_RerunReproduces ==
    (call.fn = "process" /\ pc = "done" /\ InFlight = {}) =>
        /\ parser.totalRowsProcessed = call.totalRowsProcessed
        /\ RecordCounts(files) = call.recordCounts

\* C18: a run and a second run that differs only in the quiet option end with
\* the same output files holding the same contents, the same row counters and
\* the same file index.
C18_QuietDoesNotChangeData ==
    (call.fn = "process" /\ pc = "done" /\ InFlight = {}) =>
        /\ files = call.files
        /\ parser.totalRowsProcessed = call.totalRowsProcessed
        /\ parser.currentRowCount = call.currentRowCount
        /\ parser.currentFileIndex = call.currentFileIndex
C18_Witness ==
    /\ call.fn = "process" /\ pc = "done" /\ InFlight = {}
    /\ parser.quiet /\ parser.console = 0 /\ call.console > 0
    /\ options.outputFormat = "xml"
    /\ Len(files) >= 2 /\ parser.totalRowsProcessed >= 2

\* C19: a finished run with generateStats set has produced the Aggregator's
\* statistics, over the rows it wrote, whether or not transformations are
\* configured.
C19_StatsWheneverRequested ==
    (pc = "done" /\ options.generateStats /\ SupportedFormat) =>
        /\ parser.statistics.produced
        /\ parser.statistics.totalRows = parser.totalRowsProcessed

\* C20: when a sequential run is done, the data rows of its output files, taken
\* in file-index order, are the source rows the pipeline did not drop, in
\* source order: as many lines as such rows, the i-th line holding the values
\* of the i-th such row.
KeptRows ==
    LET transformed == [i \in 1..Len(CsvRows(source.text)) |->
                           IF parser.transformationPipeline.present
                           THEN PipelineTransform(parser.transformationPipeline,
                                                  CsvRows(source.text)[i])
                           ELSE CsvRows(source.text)[i]]
    IN SelectSeq(transformed, LAMBDA row : row # Null)
C20_SourceOrder ==
    (pc = "done" /\ SequentialRun /\ SupportedFormat) =>
        /\ \A k \in 1..Len(files) : files[k].name.index = k
        /\ Len(WrittenLines) = Len(KeptRows)
        /\ \A i \in 1..Len(KeptRows) :
               i <= Len(WrittenLines) =>
                   \A j \in 1..Len(KeptRows[i]) :
                       Includes(WrittenLines[i], KeptRows[i][j][2])

\* C21: for positive fileSize, processCount and chunkSizeBytes, createFileChunks
\* returns ranges of size min(chunkSizeBytes, ceil(fileSize / processCount)) that
\* are consecutive and cover every byte of [0, fileSize) exactly once: the first
\* starts at 0, each starts right after the previous one ends, and the last ends
\* at byte fileSize - 1.
C21_ChunksCoverFileOnce ==
    (call.fn = "createFileChunks" /\ call.called) =>
        LET cs == call.chunks
            chunkSize == Min(call.chunkSizeBytes,
                             CeilDiv(call.fileSize, call.processCount))
        IN /\ Len(cs) >= 1
           /\ cs[1].startByte = 0
           /\ cs[Len(cs)].endByte = call.fileSize - 1
           /\ \A i \in 1..Len(cs) :
                  /\ cs[i].startByte <= cs[i].endByte
                  /\ cs[i].endByte - cs[i].startByte + 1 <= chunkSize
                  /\ i < Len(cs) =>
                        /\ cs[i].endByte - cs[i].startByte + 1 = chunkSize
                        /\ cs[i + 1].startByte = cs[i].endByte + 1
           /\ \A byte \in 0..(call.fileSize - 1) :
                  Cardinality({i \in 1..Len(cs) :
                      cs[i].startByte <= byte /\ byte <= cs[i].endByte}) = 1
C21_Witness ==
    /\ call.fn = "createFileChunks" /\ call.called
    /\ Len(call.chunks) >= 3
    /\ call.chunks[Len(call.chunks)].endByte - call.chunks[Len(call.chunks)].startByte
           < call.chunks[1].endByte - call.chunks[1].startByte
    /\ call.chunkSizeBytes < CeilDiv(call.fileSize, call.processCount)

\* the data rows in the files of partition c
RowsOfChunk(c) ==
    SumDataRows(SelectSeq(files, LAMBDA f : f.name.chunk = c))
\* the physical lines of the byte range of partition c
LinesOfChunk(c) ==
    Split(SubSeq(source.text, pool.chunks[c + 1].startByte + 1,
                 pool.chunks[c + 1].endByte + 1), "\n")
NonEmptyLines(lines) == Cardinality({i \in 1..Len(lines) : Len(lines[i]) > 0})

\* C22: a partition after the first skips its first physical line: it emits at
\* most one data row for each non-empty line after its first one.
C22_LaterPartitionsSkipFirstLine ==
    \A c \in 1..(Len(pool.workers) - 1) :
        Fulfilled(c) => RowsOfChunk(c) <= NonEmptyLines(Tail(LinesOfChunk(c)))

\* C23: processChunks resolves, and the parallel run merges the results and
\* reports completion, only when no worker it started is still running.
C23_ResolvesAfterAllWorkers ==
    (pc = "done" /\ parser.useMultipleProcesses /\ ~pool.fallback) => InFlight = {}

\* the partitions whose worker has been started
Started(pl) == {c \in 0..(Len(pl.workers) - 1) : pl.workers[c + 1] # "unstarted"}

\* C24: once maxWorkers partitions are in flight, a continuation of processChunks
\* after Promise.race starts exactly one queued partition, and starts it only
\* when an in-flight partition has completed and left a slot free.
C24_GreedyRefill ==
    [][(pc = "awaitRace" /\ Started(pool') # Started(pool)) =>
           /\ Cardinality(Started(pool') \ Started(pool)) = 1
           /\ Cardinality(InFlight) < pool.maxWorkers]_vars

\* C25: a parallel run that has fallen back reports the total row count and the
\* file count of a sequential-only run with the same configuration (and the
\* sequential engine writes the same files), and the files written by the
\* partitions that completed are left in place.
C25_FallbackEqualsSequentialOnly ==
    /\ (call = NoCall /\ pool.fallback) =>
           \A c \in 0..(Len(pool.workers) - 1) :
               Fulfilled(c) =>
                   LET written == processChunk(WorkerDataOf(c)).fs
                   IN \A i \in 1..Len(written) :
                          \E k \in 1..Len(files) : files[k] = written[i]
    /\ (call.fn = "process" /\ pc = "done") =>
           /\ parser.totalRowsProcessed = call.totalRowsProcessed
           /\ parser.currentFileIndex = call.currentFileIndex
           /\ files = call.files
C25_Witness ==
    /\ call.fn = "process" /\ pc = "done"
    /\ parser.totalRowsProcessed = 3
    /\ parser.currentFileIndex - 1 >= 2
    /\ SumDataRows(call.partitionFiles) >= 2

\* the line the sequential engine writes for a row the pipeline returned
SequentialLineOf(row) ==
    writeRowSync([parser EXCEPT !.currentOutputStream = 1],
                 <<[name |-> <<>>, out |-> <<>>, ended |-> FALSE]>>,
                 row)[1].out[1].line
SequentialLines == [i \in 1..Len(KeptRows) |-> SequentialLineOf(KeptRows[i])]
Occurrences(seq, x) == Cardinality({i \in 1..Len(seq) : seq[i] = x})
SameMultiset(s, t) ==
    \A x \in {s[i] : i \in 1..Len(s)} \cup {t[i] : i \in 1..Len(t)} :
        Occurrences(s, x) = Occurrences(t, x)

\* C26: the rows written by all partitions of a parallel run are, as a multiset,
\* the rows a sequential run with the same configuration writes: the source
\* rows the transformation pipeline keeps, as the format writer writes them.
C26_ParallelWritesSequentialRows ==
    (/\ pc = "done" /\ parser.useMultipleProcesses /\ ~pool.fallback
     /\ InFlight = {}) =>
        SameMultiset(WrittenLines, SequentialLines)

\* C27: for every supported format, the rows counted were written: while the
\* sequential engine streams, the run-wide counter is the number of data rows
\* in its files and the current-file counter the number in the open file; the
\* rowsProcessed of a completed partition is the number of data rows in its files.
C27_CountedRowsWereWritten ==
    SupportedFormat =>
        /\ pc = "streaming" =>
               /\ parser.totalRowsProcessed =
                      SumDataRows(SelectSeq(files, LAMBDA f : f.name.chunk = -1))
               /\ parser.currentRowCount =
                      Len(DataRows(files[parser.currentOutputStream]))
        /\ \A c \in 0..(Len(pool.workers) - 1) :
               Fulfilled(c) => ResultOf(c).rowsProcessed = RowsOfChunk(c)

\* C28: the pipeline hands a row to the Aggregator exactly when no transformer
\* dropped it, once, so when a sequential run with aggregation is done the
\* Aggregator's row count is the number of rows the pipeline kept and the
\* number of rows written to the output files.
C28_AggregatorCountsWrittenRows ==
    (/\ pc = "done" /\ SequentialRun /\ SupportedFormat
     /\ parser.transformationPipeline.present
     /\ parser.transformationPipeline.aggregator.enabled) =>
        /\ parser.transformationPipeline.aggregator.rowCount = Len(KeptRows)
        /\ parser.transformationPipeline.aggregator.rowCount = SumDataRows(files)

\* the writes of a file are its header, then its rows, then the footer that
\* writeFooterSync writes for the format (one for xml, none otherwise), the
\* footer being there exactly when the file is ended
FooterLast(file) ==
    LET footers == {i \in 1..Len(file.out) : file.out[i].kind = "footer"}
    IN /\ \A i \in footers : i = Len(file.out)
       /\ (file.ended /\ options.outputFormat = "xml") => footers # {}
       /\ (~file.ended \/ options.outputFormat # "xml") => footers = {}

\* C29: in a sequential run at most one output stream is open at any time, and
\* it is the parser's current stream; a file is ended only as the current
\* stream, with its footer as its last write, and never changes afterwards
\* (it is finalized once and nothing is written after the end); every file
\* that is opened is eventually ended, and when the run is done the last file
\* is ended too, however few rows it holds.
C29_EveryFileFinalizedOnce ==
    /\ [](/\ Cardinality({k \in 1..Len(files) : ~files[k].ended}) <= 1
          /\ \A k \in 1..Len(files) : FooterLast(files[k])
          /\ pc = "streaming" =>
                 /\ parser.currentOutputStream = Len(files)
                 /\ ~files[Len(files)].ended
          /\ pc = "done" => \A k \in 1..Len(files) : files[k].ended)
    /\ [][\A k \in 1..Len(files) :
              /\ files[k].ended => (Len(files') >= k /\ files'[k] = files[k])
              /\ (~files[k].ended /\ Len(files') >= k /\ files'[k].ended) =>
                     k = parser.currentOutputStream]_vars
    /\ (\E k \in 1..Len(files) : ~files[k].ended)
           ~> (\A k \in 1..Len(files) : files[k].ended)
C29_Witness ==
    /\ pc = "done" /\ SequentialRun
    /\ options.outputFormat = "xml"
    /\ parser.maxRowsPerFile = 2
    /\ Len(files) = 2
    /\ Len(DataRows(files[2])) = 1
    /\ files[2].ended
    /\ files[2].out[Len(files[2].out)].kind = "footer"

\* the source rows on which the configured validator throws, and the lines the
\* engine writes for the rows the pipeline returns
ThrowingRow(row) ==
    PipelineTransform(parser.transformationPipeline, row) = Thrown
ReturnedLines ==
    LET returned == SelectSeq(KeptRows, LAMBDA row : row # Thrown)
    IN [i \in 1..Len(returned) |-> SequentialLineOf(returned[i])]

\* C30: when processing a row raises an error in a sequential run, the handler
\* catches it: the run stays streaming with the next row to come, the two
\* counters and the output files are as before; and when the run is done every
\* row has been handled and the rows that raised no error and were not dropped
\* are the rows written and counted.
C30_RowErrorSkipsRow ==
    /\ [][(/\ pc = "streaming"
           /\ readPos < Len(CsvRows(source.text))
           /\ ThrowingRow(CsvRows(source.text)[readPos + 1])) =>
              /\ pc' = "streaming"
              /\ readPos' = readPos + 1
              /\ parser'.currentRowCount = parser.currentRowCount
              /\ parser'.totalRowsProcessed = parser.totalRowsProcessed
              /\ parser'.currentOutputStream = parser.currentOutputStream
              /\ parser'.currentFileIndex = parser.currentFileIndex
              /\ files' = files]_vars
    /\ [](pc = "done" =>
              /\ readPos = Len(CsvRows(source.text))
              /\ WrittenLines = ReturnedLines
              /\ parser.totalRowsProcessed = Len(ReturnedLines))
C30_Witness ==
    /\ pc = "done"
    /\ Len(CsvRows(source.text)) = 3
    /\ ThrowingRow(CsvRows(source.text)[1])
    /\ ~ThrowingRow(CsvRows(source.text)[2])
    /\ ThrowingRow(CsvRows(source.text)[3])
    /\ parser.totalRowsProcessed = 1
    /\ parser.console > 0 /\ parser.quiet

\* the error list of the object a run returns (CSVParser.run returns the
\* parser instance): the list the object holds, none when it has no such field
ErrorListOf(p) == IF "errors" \in DOMAIN p THEN p.errors ELSE <<>>
\* the rows delivered so far whose processing raised an error
RowErrorsSoFar ==
    Cardinality({i \in 1..readPos : ThrowingRow(CsvRows(source.text)[i])})

\* C31: in a sequential run every row error raised so far is an entry of the
\* error list of the result object (and the run goes on streaming).
C31_RowErrorsInResult ==
    (SequentialRun /\ pc \in {"streaming", "done"}) =>
        Len(ErrorListOf(parser)) = RowErrorsSoFar

NoDuplicates(seq) == \A i, j \in 1..Len(seq) : seq[i] = seq[j] => i = j
IndexIn(seq, x) == CHOOSE i \in 1..Len(seq) : seq[i] = x
\* the names of out are names of hdrs, in the order they have in hdrs
KeepsOrderOf(out, hdrs) ==
    /\ \A i \in 1..Len(out) : Includes(hdrs, out[i])
    /\ \A i, j \in 1..Len(out) :
           i < j => IndexIn(hdrs, out[i]) <= IndexIn(hdrs, out[j])

\* C32: for an input header list with unique names and any include and exclude
\* lists, the output header list has no duplicate names and keeps the relative
\* order of the input header list.
C32_OutputHeadersOrderedAndUnique ==
    (call.fn = "ColumnFilter" /\ call.headersAsked /\ NoDuplicates(call.headers)) =>
        /\ NoDuplicates(call.outputHeaders)
        /\ KeepsOrderOf(call.outputHeaders, call.headers)

\* the texts new Date() accepts among those tried
ValidDates == {"2025-06-02T10:00Z"}
FailedConversions(t, row) ==
    {i \in 1..Len(t.conversions) :
        /\ t.conversions[i][2] = "date"
        /\ Get(row, t.conversions[i][1]) \notin ({Undefined, ""} \cup ValidDates)}

\* C33: after transform (or the Aggregator's process) the row object handed in
\* is as it was.  ColumnFilter and DataTypeConverter return another object;
\* DataValidator returns the object handed in or null and creates nothing; the
\* Aggregator returns the object handed in and has counted it; the
\* DataTypeConverter never returns null, keeps the keys, and a field whose
\* conversion failed has the value it had.
C33_TransformLeavesInputUnchanged ==
    (call.fn = "Transformer" /\ call.done) =>
        LET t == call.transformer
        IN /\ call.heap[1] = call.row
           /\ t.kind \in {"ColumnFilter", "DataTypeConverter"} =>
                  /\ call.returned = 2
                  /\ Len(call.heap) = 2
           /\ t.kind = "DataValidator" =>
                  /\ call.returned \in {0, 1}
                  /\ call.heap = <<call.row>>
           /\ t.kind = "Aggregator" =>
                  /\ call.returned = 1
                  /\ call.heap = <<call.row>>
                  /\ t.aggregator.rowCount = 1
           /\ t.kind = "DataTypeConverter" =>
                  /\ Keys(call.heap[2]) = Keys(call.row)
                  /\ \A i \in FailedConversions(t, call.row) :
                         Get(call.heap[2], t.conversions[i][1])
                             = Get(call.row, t.conversions[i][1])
C33_Witness ==
    /\ call.fn = "Transformer" /\ call.done
    /\ call.transformer.kind = "DataTypeConverter"
    /\ call.transformer.conversions = <<<<"age", "number">>, <<"name", "boolean">>>>
    /\ call.row = <<<<"name", "yes">>, <<"age", "30">>>>
    /\ call.heap[1] = call.row
    /\ call.heap[2] = <<<<"name", BooleanValue[TRUE]>>, <<"age", NumberValue[30]>>>>

\* the rows of the batches of a stream, in the order written
RECURSIVE BatchedRows(_)
BatchedRows(stream) ==
    IF Len(stream) = 0 THEN <<>>
    ELSE BatchedRows(SubSeq(stream, 1, Len(stream) - 1)) \o stream[Len(stream)].data

\* C34: the rows handed to writeRow are, in arrival order, the rows of the
\* batches written followed by the rows still buffered; after writeHeader and
\* after every writeRow the buffer holds fewer than batchSize rows; after
\* writeFooter the buffer is empty and every row is in a batch; and a batch
\* written by writeRow holds exactly batchSize rows.
C34_ParquetBatches ==
    /\ [](call.fn = "ParquetFormatter" =>
             /\ BatchedRows(call.stream) \o call.rows = call.passed
             /\ call.phase = "open" => Len(call.rows) < call.batchSize
             /\ call.phase = "closed" =>
                    /\ call.rows = <<>>
                    /\ BatchedRows(call.stream) = call.passed)
    /\ [][(call.fn = "ParquetFormatter" /\ Len(call'.passed) > Len(call.passed)) =>
              \A k \in (Len(call.stream) + 1)..Len(call'.stream) :
                  Len(call'.stream[k].data) = call.batchSize]_vars
C34_Witness ==
    /\ call.fn = "ParquetFormatter" /\ call.phase = "closed"
    /\ call.batchSize = 2
    /\ Len(call.passed) = 3
    /\ Len(call.stream) = 2
    /\ Len(call.stream[1].data) = 2
    /\ Len(call.stream[2].data) = 1

C36_ProcessSettles ==
    source.status = "ok" => <>(pc \in {"done", "rejected"})
\* the same for the files that have a header line
C36_SettlesWithHeaderLine ==
    (source.status = "ok" /\ Len(source.text) > 0) => <>(pc \in {"done", "rejected"})

\* C37: when every started worker eventually settles its promise,
\* processChunks eventually settles: it resolves (processMultiThread goes on to
\* its report) or rejects (processMultiThread falls back), for no chunk, for
\* fewer chunks than maxWorkers and for more, in every completion order.
C37_ProcessChunksSettles ==
    <>(pc \in {"done", "streaming"})
C37_Witness ==
    /\ pc = "done"
    /\ Len(pool.chunks) = 0
    /\ pool.maxWorkers = 2
    /\ pool.results = <<>>

\* the text written for the k-th output column in the line of a data row
WrittenField(line, k) ==
    CASE options.outputFormat = "csv" -> FieldOf(Split(line, ",")[k])
      [] options.outputFormat = "tsv" -> FieldOf(Split(line, "\t")[k])
      [] options.outputFormat = "xml" -> line[1 + 7 * (k - 1) + 4]

\* C38: in the csv, tsv and xml files of a finished sequential run, a field
\* whose value the type conversion made the number 0 or the boolean false is
\* written as the text '0' or 'false'.
C38_ZeroAndFalseWritten ==
    (/\ pc = "done" /\ SequentialRun
     /\ options.outputFormat \in {"csv", "tsv", "xml"}
     /\ Len(WrittenLines) = Len(KeptRows)) =>
        \A i \in 1..Len(KeptRows) :
            \A k \in 1..Len(parser.outputHeaders) :
                LET value == Get(KeptRows[i], parser.outputHeaders[k])
                IN value \in {NumberValue[0], BooleanValue[FALSE]} =>
                       WrittenField(WrittenLines[i], k) = StringOf(value)

\* C39: every finalized file of a sequential xml run starts with the one write
\* of the declaration and the opening root tag, ends with the one write of the
\* closing root tag, and has only row elements between them, also when the
\* output header list is empty and when the file has no row.
C39_XmlFileWellFormed ==
    (SequentialRun /\ options.outputFormat = "xml") =>
        \A f \in 1..Len(files) :
            files[f].ended =>
                LET out == files[f].out
                IN /\ Len(out) >= 2
                   /\ out[1] = [kind |-> "header", line |-> <<"<?xml?>", "<data>">>]
                   /\ out[Len(out)] = [kind |-> "footer", line |-> <<"</data>">>]
                   /\ \A i \in 2..(Len(out) - 1) : out[i].kind = "row"

\* C40: when a sequential run with a column filter and statistics is done, the
\* columns of the statistics report are columns of the output header list (a
\* column the filter removed is not reported), and once a row was analyzed
\* every column of the output header list is reported.
C40_StatsCoverOutputColumns ==
    (/\ pc = "done" /\ SequentialRun
     /\ parser.statistics.produced
     /\ Len(options.transformations.includeColumns) > 0
            \/ Len(options.transformations.excludeColumns) > 0) =>
        LET reported == {parser.statistics.columns[i][1] :
                            i \in 1..Len(parser.statistics.columns)}
        IN /\ \A column \in reported : Includes(parser.outputHeaders, column)
           /\ parser.statistics.totalRows > 0 =>
                  \A k \in 1..Len(parser.outputHeaders) :
                      parser.outputHeaders[k] \in reported
====
